---- MODULE Spec2Model ----
(***************************************************************************)
(* A model of the rule execution core of ElastAlert 2                       *)
(* (src/elastalert/elastalert.py): the scheduler and its rule jobs, the     *)
(* time cursor of a rule, the seen-hit map, the silence cache with the      *)
(* exponential realert, the aggregation queue with the pending-alert sweep, *)
(* and alert_lock.  Each part has its own variables and its own             *)
(* specification; a specification leaves the other parts' variables alone.  *)
(*                                                                          *)
(* Time is an integer.  None (-1) stands for Python's None / a missing key. *)
(***************************************************************************)
EXTENDS Integers, Sequences, FiniteSets, TLC

None == 0 - 1

VARIABLES
    \* Part 1, the scheduler
    rules,          \* self.rules: rule name -> generation of the loaded instance, None when not loaded
    disabled_rules, \* self.disabled_rules: the set of disabled rule names
    jobs,           \* scheduler job store: rule name -> [gen, paused] or NoJob
    instances,      \* the executor's running-instance count per job id
    inflight,       \* rule name -> the generations of the rule instances whose tick is running
    coalesced,      \* rule name -> a fire was skipped since the last tick of that name returned
    next_gen,       \* the generation the next loaded rule instance gets
    \* Part 2, alert_lock
    alert_lock,     \* the thread holding self.alert_lock, or NoThread
    lk_pc,          \* thread -> where it is
    lk_todo,        \* tick thread -> matches its tick has still to pass to add_aggregated_alert
    sweep_phase,    \* the part of the sweep body the sweep thread is in
    \* Part 3, silence and realert
    sl_now,         \* ts_now()
    sl_rule,        \* the rule's configuration: realert, exponential_realert, aggregation, run_enhancements_first
    silence_cache,  \* self.silence_cache: silence key -> [until, exponent] or NoEntry
    silence_docs,   \* writeback: silence key -> the newest (largest until) silence document, or NoEntry
    sl_op,          \* the operation that ran last, with its key
    sl_outcome,     \* what run_rule did with the last match
    ra_last,        \* the last next_alert_time call: its timestamp, the cached entry it read, its result
    sl_set,         \* silence key -> the last set_realert of this process for it: its pair, its inputs, its document
    s3_step,        \* how far the calls so far follow the scenario of the spec (None: they left it)
    \* Part 4, the time cursor and the seen-hit map
    cu_now,         \* ts_now()
    cu_rule,        \* the rule's configuration: mode, buffer_time, timeframe, scan_entire_timeframe, query_delay
    cu_starttime,   \* rule['starttime'], None when the key is missing
    cu_minimum_starttime, \* rule['minimum_starttime'], None when the key is missing
    cu_previous_endtime,  \* rule['previous_endtime'], None when the key is missing
    cu_processed_hits,    \* rule['processed_hits']: the _ids remembered (the _id of an event is its timestamp)
    cu_events,      \* the events in the backend
    cu_added,       \* the _ids passed to the rule type's add_data
    cu_readded,     \* the _ids passed to add_data a second time
    cu_counted,     \* count and terms mode: the time units whose data went to add_count_data / add_terms_data
    cu_recounted,   \* the time units whose data went there a second time
    cu_status,      \* the endtime of the newest elastalert_status document of the rule, or None
    cu_tick,        \* the last tick: what get_starttime returned, its window, the bounds it had, its dupes
    cu_prev,        \* the tick before it: its time and what get_starttime returned
    cu_ran,         \* a tick ran at this instant
    \* Part 5, the aggregation queue and the pending-alert sweep
    ag_now,         \* ts_now()
    ag_store,       \* writeback: the elastalert documents with alert_sent = false
    ag_next_id,     \* the _id the next indexed document gets
    ag_current_aggregate_id, \* rule['current_aggregate_id']: aggregation key -> _id, None when missing
    ag_aggregate_alert_time, \* rule['aggregate_alert_time']: aggregation key -> time, None when missing
    ag_agg_matches, \* rule['agg_matches']
    ag_next_match,  \* the number the rule type's next match gets
    ag_delivered,   \* match number -> how often an alerter was given the match and sent it
    ag_failures,    \* how many alert calls failed
    ag_dispatched,  \* the roots the sweep that ran last dispatched: the root, the matches stored under it, the matches alerted
    ag_at_restart,  \* the pending documents (no aggregate_id) the store held at the last restart: _id, match, alert_time
    ag_swept,       \* the operation that ran last is a sweep
    \* Part 6, the memory GC job
    gc_now,         \* ts_now()
    gc_rules,       \* the names of the rules in self.rules
    gc_disabled_rules, \* the names of the rules in self.disabled_rules
    gc_es_clients,  \* the keys of self.es_clients
    gc_silence_cache, \* self.silence_cache: silence key -> [until, exponent] or NoEntry
    gc_processed_hits, \* rule name -> rule['processed_hits'], the _ids remembered
    gc_aggregate_alert_time, \* rule name -> rule['aggregate_alert_time']
    gc_current_aggregate_id, \* rule name -> rule['current_aggregate_id']
    gc_inflight,    \* rule name -> a tick of the rule is between its start and its end
    gc_op,          \* the cleanup that ran last and what it took away
    \* Part 7, the scroll of a query
    sc_scroll_id,   \* rule['scroll_id'], None when the key is missing
    sc_next_id,     \* the scroll id the backend issues next
    sc_cleared,     \* the scroll ids clear_scroll was requested for
    sc_last,        \* the last run_query call: its exit path, its result, the scroll id issued to it, its scrolling_cycle
    \* Part 8, the alerters of a send_alert call
    sa_last,        \* the last send_alert call: what its alerters did, the alerters called, the documents written
    \* Part 9, the retry of a failed alert
    rt_now,         \* ts_now()
    rt_loaded,      \* the rule is in self.rules
    rt_store,       \* writeback: the unsent elastalert documents of the rule's match
    rt_next_id,     \* the _id the next indexed document gets
    rt_alert_time,  \* the alert_time of the alert that failed, None before it failed
    rt_sends,       \* how often an alerter sent the match
    rt_last,        \* the sweep that ran last: the alert was due, how often it was dispatched, it had been sent before
    \* Part 10, the state kept over a reload
    rl_rule,        \* the rule of the name in self.rules, or NoRule
    rl_disabled,    \* the rule of the name in self.disabled_rules, or NoRule
    rl_last,        \* the last operation, and for a reload the instance of the name there was before it
    \* Part 11, the match enhancements
    en_in,          \* the batch: run_enhancements_first, the number of matches, what process does for each enhancement and match
    en_last,        \* the batch after the enhancements: the matches that go on to the alerters, the errors recorded
    \* Part 12, debug mode
    db_debug,       \* self.debug
    db_now,         \* ts_now()
    db_store,       \* the documents of the writeback index
    db_next_id,     \* the _id the next indexed document gets
    db_agg_matches, \* the number of matches in rule['agg_matches']
    db_aggregate_alert_time,\* rule['aggregate_alert_time'] of the rule's one key, None when missing
    db_calls,       \* how often the rule's alerters and the DebugAlerter were called
    db_last,        \* the operation that ran last, the _ids it wrote and deleted
    \* Part 13, the life of a match
    lf_rule,        \* the rule: it has an aggregation, run_enhancements_first
    lf_now,         \* ts_now()
    lf_match,       \* where the match is, its alert_time, how often it was enhanced and alerted
    lf_last,        \* the operation that ran last; for a sweep: retried as passed to alert, the match had been alerted before
    \* Part 14, the window of a rule with bucket_interval
    sy_in,          \* the starttime and the window length set_starttime picked, bucket_interval in seconds, sync_bucket_interval
    sy_window,      \* the window the tick queries and records, and bucket_offset_delta
    \* Part 15, limit_execution
    le_rule,        \* the rule configuration
    le_now,         \* the clock
    le_st,          \* has_run_once, the cursor, the next run time of the job, the newest status document
    le_tick,        \* the last tick: when, the pause it set, the windows it queried
    \* Part 16, the rule lists and the job store
    ls_rules,       \* self.rules, the names in list order
    ls_disabled,    \* self.disabled_rules, the names in list order
    ls_jobs,        \* the job of each name: "none", "scheduled" or "paused"
    ls_hashes,      \* self.rule_hashes: what each rule file was at the last load
    ls_inflight     \* the names whose job has a run going

schedVars == <<rules, disabled_rules, jobs, instances, inflight, coalesced, next_gen>>

lockVars == <<alert_lock, lk_pc, lk_todo, sweep_phase>>

silenceVars == <<sl_now, sl_rule, silence_cache, silence_docs, sl_op, sl_outcome, ra_last,
                 sl_set, s3_step>>

cursorVars == <<cu_now, cu_rule, cu_starttime, cu_minimum_starttime, cu_previous_endtime,
                cu_processed_hits, cu_events, cu_added, cu_readded, cu_counted,
                   cu_recounted, cu_status, cu_tick,
                cu_prev, cu_ran>>

aggVars == <<ag_now, ag_store, ag_next_id, ag_current_aggregate_id, ag_aggregate_alert_time,
             ag_agg_matches, ag_next_match, ag_delivered, ag_failures, ag_dispatched,
             ag_at_restart, ag_swept>>

gcVars == <<gc_now, gc_rules, gc_disabled_rules, gc_es_clients, gc_silence_cache,
            gc_processed_hits, gc_aggregate_alert_time, gc_current_aggregate_id, gc_inflight,
            gc_op>>

scrollVars == <<sc_scroll_id, sc_next_id, sc_cleared, sc_last>>

sendVars == <<sa_last>>

retryVars == <<rt_now, rt_loaded, rt_store, rt_next_id, rt_alert_time, rt_sends, rt_last>>

reloadVars == <<rl_rule, rl_disabled, rl_last>>

enhVars == <<en_in, en_last>>

debugVars == <<db_debug, db_now, db_store, db_next_id, db_agg_matches,
               db_aggregate_alert_time, db_calls, db_last>>

lifeVars == <<lf_rule, lf_now, lf_match, lf_last>>

syncVars == <<sy_in, sy_window>>

limitVars == <<le_rule, le_now, le_st, le_tick>>

listsVars == <<ls_rules, ls_disabled, ls_jobs, ls_hashes, ls_inflight>>

vars == <<schedVars, lockVars, silenceVars, cursorVars, aggVars, gcVars, scrollVars, sendVars,
          retryVars, reloadVars, enhVars, debugVars, lifeVars, syncVars, limitVars, listsVars>>

\* What the actions of one part leave alone: the variables of the other parts.
notSched == <<lockVars, silenceVars, cursorVars, aggVars, gcVars, scrollVars, sendVars,
              retryVars, reloadVars, enhVars, debugVars, lifeVars, syncVars, limitVars,
              listsVars>>

notLock == <<schedVars, silenceVars, cursorVars, aggVars, gcVars, scrollVars, sendVars,
             retryVars, reloadVars, enhVars, debugVars, lifeVars, syncVars, limitVars, listsVars>>

notSilence == <<schedVars, lockVars, cursorVars, aggVars, gcVars, scrollVars, sendVars,
                retryVars, reloadVars, enhVars, debugVars, lifeVars, syncVars, limitVars,
                listsVars>>

notCursor == <<schedVars, lockVars, silenceVars, aggVars, gcVars, scrollVars, sendVars,
               retryVars, reloadVars, enhVars, debugVars, lifeVars, syncVars, limitVars,
               listsVars>>

notAgg == <<schedVars, lockVars, silenceVars, cursorVars, gcVars, scrollVars, sendVars,
            retryVars, reloadVars, enhVars, debugVars, lifeVars, syncVars, limitVars, listsVars>>

notGc == <<schedVars, lockVars, silenceVars, cursorVars, aggVars, scrollVars, sendVars,
           retryVars, reloadVars, enhVars, debugVars, lifeVars, syncVars, limitVars, listsVars>>

notScroll == <<schedVars, lockVars, silenceVars, cursorVars, aggVars, gcVars, sendVars,
               retryVars, reloadVars, enhVars, debugVars, lifeVars, syncVars, limitVars,
               listsVars>>

notSend == <<schedVars, lockVars, silenceVars, cursorVars, aggVars, gcVars, scrollVars,
             retryVars, reloadVars, enhVars, debugVars, lifeVars, syncVars, limitVars, listsVars>>

notRetry == <<schedVars, lockVars, silenceVars, cursorVars, aggVars, gcVars, scrollVars,
              sendVars, reloadVars, enhVars, debugVars, lifeVars, syncVars, limitVars, listsVars>>

notReload == <<schedVars, lockVars, silenceVars, cursorVars, aggVars, gcVars, scrollVars,
               sendVars, retryVars, enhVars, debugVars, lifeVars, syncVars, limitVars, listsVars>>

notEnh == <<schedVars, lockVars, silenceVars, cursorVars, aggVars, gcVars, scrollVars,
            sendVars, retryVars, reloadVars, debugVars, lifeVars, syncVars, limitVars, listsVars>>

notDebug == <<schedVars, lockVars, silenceVars, cursorVars, aggVars, gcVars, scrollVars,
              sendVars, retryVars, reloadVars, enhVars, lifeVars, syncVars, limitVars, listsVars>>

notLife == <<schedVars, lockVars, silenceVars, cursorVars, aggVars, gcVars, scrollVars,
             sendVars, retryVars, reloadVars, enhVars, debugVars, syncVars, limitVars, listsVars>>

notSync == <<schedVars, lockVars, silenceVars, cursorVars, aggVars, gcVars, scrollVars,
             sendVars, retryVars, reloadVars, enhVars, debugVars, lifeVars, limitVars, listsVars>>

notLimit == <<schedVars, lockVars, silenceVars, cursorVars, aggVars, gcVars, scrollVars,
              sendVars, retryVars, reloadVars, enhVars, debugVars, lifeVars, syncVars, listsVars>>

notLists == <<schedVars, lockVars, silenceVars, cursorVars, aggVars, gcVars, scrollVars,
              sendVars, retryVars, reloadVars, enhVars, debugVars, lifeVars, syncVars, limitVars>>

Max(a, b) == IF a >= b THEN a ELSE b

Min(a, b) == IF a <= b THEN a ELSE b

(***************************************************************************)
(* PART 1 - the scheduler and the rule jobs.                                *)
(*                                                                          *)
(* self.scheduler is an APScheduler BackgroundScheduler.  Its job store is  *)
(* keyed by job id (the rule name) and its executor counts the running      *)
(* instances of a job under the job id: a fire of a job whose count has     *)
(* reached max_instances is not submitted (the run is skipped), and the     *)
(* count falls when the submitted call returns.                             *)
(***************************************************************************)
RuleNames == {"r1", "r2"}

\* The number of rule instances loaded over a run (reloads included).
MaxGen == 3

NoJob == [gen |-> None, paused |-> FALSE]

\* job_defaults['max_instances'] and add_job(max_instances=1); the variant below allows two.
max_instances_two == 1 + 1

max_instances == 1

\* The rules whose file has limit_execution (a cron expression).
limit_execution == {"r1"}

SchedInit ==
    /\ rules = [n \in RuleNames |-> IF n = "r1" THEN 0 ELSE None]
    /\ disabled_rules = {}
    /\ jobs = [n \in RuleNames |-> IF n = "r1" THEN [gen |-> 0, paused |-> FALSE] ELSE NoJob]
    /\ instances = [n \in RuleNames |-> 0]
    /\ inflight = [n \in RuleNames |-> <<>>]
    /\ coalesced = [n \in RuleNames |-> FALSE]
    /\ next_gen = 1

\* The scheduler's timer fires the job of rule n.  The run is submitted to the
\* pool unless max_instances runs of that job id are still going; a fire that
\* would overlap is skipped and coalesced into the next one.
SchedulerFire(n) ==
    /\ jobs[n] # NoJob
    /\ ~jobs[n].paused
    /\ IF instances[n] < max_instances
         THEN /\ instances' = [instances EXCEPT ![n] = @ + 1]
              /\ inflight' = [inflight EXCEPT ![n] = Append(@, jobs[n].gen)]
              /\ UNCHANGED coalesced
         ELSE /\ coalesced' = [coalesced EXCEPT ![n] = TRUE]
              /\ UNCHANGED <<instances, inflight>>
    /\ UNCHANGED <<rules, disabled_rules, jobs, next_gen>>
    /\ UNCHANGED notSched

\* reset_rule_schedule at the end of handle_rule_execution: for a rule with
\* limit_execution whose tick set next_starttime, modify_job gives the job of
\* that name the next run time next_starttime.  A job with a next run time
\* is not paused (pause_job is modify_job with no next run time); with no
\* job of that name modify_job raises and changes nothing.
reset_rule_schedule(n, next_starttime, js) ==
    IF n \in limit_execution /\ next_starttime /\ js[n] # NoJob
      THEN [js EXCEPT ![n].paused = FALSE]
      ELSE js

\* handle_rule_execution returns normally (errors that run_rule raised as
\* EAException included): reset_rule_schedule, and the executor releases the
\* instance.  next_starttime: the tick set rule['next_starttime'].
TickReturn(n, next_starttime) ==
    /\ inflight[n] # <<>>
    /\ jobs' = reset_rule_schedule(n, next_starttime, jobs)
    /\ inflight' = [inflight EXCEPT ![n] = Tail(@)]
    /\ instances' = [instances EXCEPT ![n] = @ - 1]
    /\ coalesced' = [coalesced EXCEPT ![n] = FALSE]
    /\ UNCHANGED <<rules, disabled_rules, next_gen>>
    /\ UNCHANGED notSched

\* handle_rule_execution catches an uncaught exception of run_rule while
\* disable_rules_on_error is set: handle_uncaught_exception drops the rule
\* from self.rules, appends it to disabled_rules and pauses the job of that
\* name; handle_rule_execution then goes on to reset_rule_schedule and
\* returns.
TickRaises(n, next_starttime) ==
    /\ inflight[n] # <<>>
    /\ rules' = [rules EXCEPT ![n] = None]
    /\ disabled_rules' = disabled_rules \cup {n}
    /\ jobs' = reset_rule_schedule(n, next_starttime,
                   IF jobs[n] # NoJob THEN [jobs EXCEPT ![n].paused = TRUE] ELSE jobs)
    /\ inflight' = [inflight EXCEPT ![n] = Tail(@)]
    /\ instances' = [instances EXCEPT ![n] = @ - 1]
    /\ coalesced' = [coalesced EXCEPT ![n] = FALSE]
    /\ UNCHANGED next_gen
    /\ UNCHANGED notSched

\* init_rule: with new=False the job of that name is removed first; then a
\* job with the rule name as id is added for the new instance.
init_rule(n, new) ==
    /\ next_gen < MaxGen
    /\ (new => jobs[n] = NoJob)
    /\ jobs' = [jobs EXCEPT ![n] = [gen |-> next_gen, paused |-> FALSE]]
    /\ next_gen' = next_gen + 1

\* load_rule_changes, a changed rule file that loads as enabled: the rule is
\* re-enabled if it was disabled, init_rule(new_rule, False) replaces the job
\* and self.rules holds the new instance.
ReloadChanged(n) ==
    /\ rules[n] # None \/ n \in disabled_rules
    /\ init_rule(n, FALSE)
    /\ rules' = [rules EXCEPT ![n] = next_gen]
    /\ disabled_rules' = disabled_rules \ {n}
    /\ UNCHANGED <<instances, inflight, coalesced>>
    /\ UNCHANGED notSched

\* load_rule_changes, a changed rule file that loads with is_enabled false:
\* the rule leaves self.rules, its job is removed and it is appended to
\* disabled_rules.
ReloadDisabled(n) ==
    /\ rules[n] # None
    /\ rules' = [rules EXCEPT ![n] = None]
    /\ jobs' = [jobs EXCEPT ![n] = NoJob]
    /\ disabled_rules' = disabled_rules \cup {n}
    /\ UNCHANGED <<instances, inflight, coalesced, next_gen>>
    /\ UNCHANGED notSched

\* load_rule_changes, a deleted rule file: remove_job and self.rules.remove.
RuleFileDeleted(n) ==
    /\ rules[n] # None
    /\ rules' = [rules EXCEPT ![n] = None]
    /\ jobs' = [jobs EXCEPT ![n] = NoJob]
    /\ UNCHANGED <<disabled_rules, instances, inflight, coalesced, next_gen>>
    /\ UNCHANGED notSched

\* load_rule_changes, a new rule file: init_rule(new_rule) and rules.append.
RuleFileAdded(n) ==
    /\ rules[n] = None
    /\ n \notin disabled_rules
    /\ init_rule(n, TRUE)
    /\ rules' = [rules EXCEPT ![n] = next_gen]
    /\ UNCHANGED <<disabled_rules, instances, inflight, coalesced>>
    /\ UNCHANGED notSched

SchedNext ==
    \E n \in RuleNames :
        \/ SchedulerFire(n)
        \/ \E next_starttime \in BOOLEAN : TickReturn(n, next_starttime)
        \/ \E next_starttime \in BOOLEAN : TickRaises(n, next_starttime)
        \/ ReloadChanged(n)
        \/ ReloadDisabled(n)
        \/ RuleFileDeleted(n)
        \/ RuleFileAdded(n)

(***************************************************************************)
(* PART 2 - alert_lock.                                                     *)
(*                                                                          *)
(* The pending-alert sweep runs on the scheduler's pool as its own job; the *)
(* ticks of the rules run on other threads of the pool and call             *)
(* add_aggregated_alert once for every match they aggregate.  Both bodies   *)
(* are "with self.alert_lock:" blocks of a threading.Lock.                  *)
(***************************************************************************)
TickThreads == {"tick1", "tick2"}

SweepThread == "sweep"

Threads == TickThreads \cup {SweepThread}

NoThread == "none"

\* The matches one tick aggregates (drained agg_matches and new matches).
MaxTickMatches == 2

LockInit ==
    /\ alert_lock = NoThread
    /\ lk_pc = [t \in Threads |-> "idle"]
    /\ lk_todo = [t \in TickThreads |-> 0]
    /\ sweep_phase = "none"

\* A tick starts (handle_rule_execution -> run_rule) with k matches to aggregate.
LockTickStart(t, k) ==
    /\ lk_pc[t] = "idle"
    /\ lk_pc' = [lk_pc EXCEPT ![t] = "run_rule"]
    /\ lk_todo' = [lk_todo EXCEPT ![t] = k]
    /\ UNCHANGED <<alert_lock, sweep_phase>>
    /\ UNCHANGED notLock

\* run_rule calls add_aggregated_alert for the next match: the thread reaches
\* "with self.alert_lock:".
LockCallAdd(t) ==
    /\ lk_pc[t] = "run_rule"
    /\ lk_todo[t] > 0
    /\ lk_pc' = [lk_pc EXCEPT ![t] = "add_wait"]
    /\ UNCHANGED <<alert_lock, lk_todo, sweep_phase>>
    /\ UNCHANGED notLock

\* Faulty variant: the body of add_aggregated_alert entered without the lock.
EnterAddUnlocked(t) ==
    /\ lk_pc[t] = "add_wait"
    /\ lk_pc' = [lk_pc EXCEPT ![t] = "add_body"]
    /\ UNCHANGED <<alert_lock, lk_todo, sweep_phase>>
    /\ UNCHANGED notLock

\* add_aggregated_alert: "with self.alert_lock:" acquires the free lock.
EnterAdd(t) ==
    /\ lk_pc[t] = "add_wait"
    /\ alert_lock = NoThread
    /\ alert_lock' = t
    /\ lk_pc' = [lk_pc EXCEPT ![t] = "add_body"]
    /\ UNCHANGED <<lk_todo, sweep_phase>>
    /\ UNCHANGED notLock

\* The with block of add_aggregated_alert is left, by its return or by an
\* exception of its body: the lock is released if this thread holds it.
LeaveAdd(t) ==
    /\ lk_pc[t] = "add_body"
    /\ alert_lock' = IF alert_lock = t THEN NoThread ELSE alert_lock
    /\ lk_pc' = [lk_pc EXCEPT ![t] = "run_rule"]
    /\ lk_todo' = [lk_todo EXCEPT ![t] = @ - 1]
    /\ UNCHANGED sweep_phase
    /\ UNCHANGED notLock

\* run_rule has no match left and the tick returns.
LockTickEnd(t) ==
    /\ lk_pc[t] = "run_rule"
    /\ lk_todo[t] = 0
    /\ lk_pc' = [lk_pc EXCEPT ![t] = "idle"]
    /\ UNCHANGED <<alert_lock, lk_todo, sweep_phase>>
    /\ UNCHANGED notLock

\* handle_pending_alerts fires: send_pending_alerts reaches its with block.
SweepCall ==
    /\ lk_pc[SweepThread] = "idle"
    /\ lk_pc' = [lk_pc EXCEPT ![SweepThread] = "sweep_wait"]
    /\ UNCHANGED <<alert_lock, lk_todo, sweep_phase>>
    /\ UNCHANGED notLock

\* send_pending_alerts: "with self.alert_lock:" acquires the free lock; the
\* body starts with find_recent_pending_alerts.
EnterSweep ==
    /\ lk_pc[SweepThread] = "sweep_wait"
    /\ alert_lock = NoThread
    /\ alert_lock' = SweepThread
    /\ lk_pc' = [lk_pc EXCEPT ![SweepThread] = "sweep_body"]
    /\ sweep_phase' = "query"
    /\ UNCHANGED lk_todo
    /\ UNCHANGED notLock

\* The body goes on: the dispatches and deletes of the pending alerts, then
\* the drain of the in-memory aggregates; the lock stays held.
SweepStep ==
    /\ lk_pc[SweepThread] = "sweep_body"
    /\ sweep_phase \in {"query", "dispatch"}
    /\ sweep_phase' = IF sweep_phase = "query" THEN "dispatch" ELSE "drain"
    /\ UNCHANGED <<alert_lock, lk_pc, lk_todo>>
    /\ UNCHANGED notLock

\* The with block of send_pending_alerts is left after the drain.
LeaveSweep ==
    /\ lk_pc[SweepThread] = "sweep_body"
    /\ sweep_phase = "drain"
    /\ alert_lock' = IF alert_lock = SweepThread THEN NoThread ELSE alert_lock
    /\ lk_pc' = [lk_pc EXCEPT ![SweepThread] = "idle"]
    /\ sweep_phase' = "none"
    /\ UNCHANGED lk_todo
    /\ UNCHANGED notLock

LockNext ==
    \/ \E t \in TickThreads, k \in 0..MaxTickMatches : LockTickStart(t, k)
    \/ \E t \in TickThreads : LockCallAdd(t)
    \/ \E t \in TickThreads : EnterAdd(t)
    \/ \E t \in TickThreads : LeaveAdd(t)
    \/ \E t \in TickThreads : LockTickEnd(t)
    \/ SweepCall
    \/ EnterSweep
    \/ SweepStep
    \/ LeaveSweep

(***************************************************************************)
(* PART 3 - the silence cache and the realert schedule.                     *)
(*                                                                          *)
(* is_silenced reads the newest silence document of a key (sort by until,   *)
(* descending, size 1), so of the silence documents of a key the model      *)
(* keeps the one with the largest until.                                    *)
(***************************************************************************)
NoEntry == [until |-> None, exponent |-> 0]

\* rule['name'] + "._silence", and rule['realert_key'] + "." + the query key value.
RuleWideKey == "r1._silence"

MatchKeys == {"r1.a"}

SilenceKeys == MatchKeys \cup {RuleWideKey}

\* The clock of the silence model stops here.
MaxSilenceNow == 3

\* The largest exponent the model lets the cache hold.
MaxExponent == 7

RECURSIVE Pow2(_)
Pow2(e) == IF e <= 0 THEN 1 ELSE 2 * Pow2(e - 1)

\* seconds(rule['realert']) * 2 ** exponent (an exponent below 0 divides).
RealertTimes(rule, exponent) ==
    IF exponent >= 0 THEN rule.realert * Pow2(exponent)
                     ELSE rule.realert \div Pow2(0 - exponent)

\* next_alert_time, the loop: "while diff > realert * 2 ** exponent and
\* exponent > 0: diff -= realert * 2 ** exponent; exponent -= 1".
RECURSIVE DecreaseExponent(_, _, _)
DecreaseExponent(rule, diff, exponent) ==
    IF diff > RealertTimes(rule, exponent) /\ exponent > 0
      THEN DecreaseExponent(rule, diff - RealertTimes(rule, exponent), exponent - 1)
      ELSE exponent

\* Faulty variant: the exponent is not raised for an alert that comes early.
next_alert_time_flat(rule, cache, name, timestamp) ==
    IF cache[name] = NoEntry \/ rule.exponential_realert = None
      THEN <<timestamp + rule.realert, 0>>
      ELSE LET diff == timestamp - cache[name].until
               exponent == DecreaseExponent(rule, diff, cache[name].exponent)
               wait == RealertTimes(rule, exponent)
           IN  IF wait >= rule.exponential_realert
                 THEN <<timestamp + rule.exponential_realert, exponent - 1>>
                 ELSE <<timestamp + wait, exponent>>

\* next_alert_time(rule, name, timestamp): <<until, exponent>>.
next_alert_time(rule, cache, name, timestamp) ==
    IF cache[name] = NoEntry
      THEN <<timestamp + rule.realert, 0>>
      ELSE IF rule.exponential_realert = None
        THEN <<timestamp + rule.realert, 0>>
        ELSE LET last_until == cache[name].until
                 diff == timestamp - last_until
                 exponent ==
                     IF diff < RealertTimes(rule, cache[name].exponent)
                       THEN cache[name].exponent + 1
                       ELSE DecreaseExponent(rule, diff, cache[name].exponent)
                 wait == RealertTimes(rule, exponent)
             IN  IF wait >= rule.exponential_realert
                   THEN <<timestamp + rule.exponential_realert, exponent - 1>>
                   ELSE <<timestamp + wait, exponent>>

\* writeback('silence', body): the document is indexed when the backend
\* answers (ok); the newest document of the key is the one with the largest until.
WriteSilenceDoc(docs, key, until, exponent, ok) ==
    IF ok /\ (docs[key] = NoEntry \/ until >= docs[key].until)
      THEN [docs EXCEPT ![key] = [until |-> until, exponent |-> exponent]]
      ELSE docs

\* Faulty variant: the cache entry keeps the until and forgets the exponent.
set_realert_cache_until_only(cache, key, until, exponent) ==
    [cache EXCEPT ![key] = [until |-> until, exponent |-> 0]]

\* set_realert: the cache entry is stored whether or not the writeback succeeds.
set_realert_cache(cache, key, until, exponent) ==
    [cache EXCEPT ![key] = [until |-> until, exponent |-> exponent]]

\* Faulty variant: an entry of the cache silences whether or not it has expired.
is_silenced_ignoring_expiry(cache, docs, key, now, es_ok) ==
    IF cache[key] # NoEntry
      THEN [silenced |-> TRUE, cache |-> [cache EXCEPT ![key] = [until |-> now, exponent |-> 0]]]
      ELSE [silenced |-> FALSE, cache |-> cache]

\* is_silenced(rule_name): the answer and the cache it leaves.  A live cache
\* entry answers; an expired one is evicted; then the newest silence
\* document is read (es_ok: the search succeeded), cached and compared.
is_silenced(cache, docs, key, now, es_ok) ==
    IF cache[key] # NoEntry /\ now < cache[key].until
      THEN [silenced |-> TRUE, cache |-> cache]
      ELSE LET evicted == [cache EXCEPT ![key] = NoEntry]
           IN  IF ~es_ok \/ docs[key] = NoEntry
                 THEN [silenced |-> FALSE, cache |-> evicted]
                 ELSE [silenced |-> now < docs[key].until,
                       cache |-> [evicted EXCEPT ![key] = docs[key]]]

\* No set_realert for the key yet.
NoSet == [pair |-> NoEntry, t |-> None, pre |-> NoEntry, shadowed |-> FALSE]

\* What set_realert(key, until, exponent) leaves for later reads: the pair,
\* the timestamp and the cache entry next_alert_time computed it from,
\* and whether a silence document of another process (shadowed before) is
\* still the newest of the key.
SetRecord(nxt, t, pre, docs_after, k, shadowed) ==
    [pair |-> [until |-> nxt[1], exponent |-> nxt[2]], t |-> t, pre |-> pre,
     shadowed |-> shadowed /\ docs_after[k] # [until |-> nxt[1], exponent |-> nxt[2]]]

\* The rule configurations explored: without realert, with a fixed realert,
\* with an exponential one; alerting at once or aggregating.
SilenceRules ==
    {[realert |-> 0, exponential_realert |-> None, aggregation |-> FALSE, run_enhancements_first |-> FALSE],
     [realert |-> 1, exponential_realert |-> None, aggregation |-> TRUE, run_enhancements_first |-> TRUE],
     [realert |-> 1, exponential_realert |-> 4, aggregation |-> FALSE, run_enhancements_first |-> FALSE]}

SilenceIdle ==
    /\ sl_now = 0
    /\ sl_rule = [realert |-> 0, exponential_realert |-> None,
                  aggregation |-> FALSE, run_enhancements_first |-> FALSE]
    /\ silence_cache = [k \in SilenceKeys |-> NoEntry]
    /\ silence_docs = [k \in SilenceKeys |-> NoEntry]
    /\ sl_op = <<"init", "">>
    /\ sl_outcome = "none"
    /\ ra_last = [t |-> None, pre |-> NoEntry, res |-> <<None, 0>>]
    /\ sl_set = [k \in SilenceKeys |-> NoSet]
    /\ s3_step = None

\* After construction: an empty cache; the silence documents of earlier runs
\* are read on demand.
SilenceInit ==
    /\ sl_now = 0
    /\ sl_rule \in SilenceRules
    /\ silence_cache = [k \in SilenceKeys |-> NoEntry]
    /\ silence_docs = [k \in SilenceKeys |-> NoEntry]
    /\ sl_op = <<"init", "">>
    /\ sl_outcome = "none"
    /\ ra_last = [t |-> None, pre |-> NoEntry, res |-> <<None, 0>>]
    /\ sl_set = [k \in SilenceKeys |-> NoSet]
    /\ s3_step = None

\* run_rule, the body of "while rule['type'].matches" for one match with
\* silence key k: the two is_silenced calls (es1, es2: their searches
\* succeed), next_alert_time and set_realert (wb: its writeback succeeds),
\* the enhancements of run_enhancements_first (drop: one raises
\* DropMatchException), then alert or add_aggregated_alert.
ProcessMatch(k, es1, es2, wb, drop) ==
    LET rw == is_silenced(silence_cache, silence_docs, RuleWideKey, sl_now, es1)
        own == is_silenced(rw.cache, silence_docs, k, sl_now, es2)
        nxt == next_alert_time(sl_rule, own.cache, k, sl_now)
    IN  /\ sl_op' = <<"match", k>>
        /\ IF rw.silenced
             THEN /\ silence_cache' = rw.cache
                  /\ sl_outcome' = "ignored"
                  /\ UNCHANGED <<silence_docs, ra_last, sl_set>>
             ELSE IF own.silenced
               THEN /\ silence_cache' = own.cache
                    /\ sl_outcome' = "ignored"
                    /\ UNCHANGED <<silence_docs, ra_last, sl_set>>
               ELSE /\ IF sl_rule.realert # 0
                         THEN /\ nxt[2] <= MaxExponent
                              /\ silence_cache' = set_realert_cache(own.cache, k, nxt[1], nxt[2])
                              /\ silence_docs' = WriteSilenceDoc(silence_docs, k, nxt[1], nxt[2], wb)
                              /\ sl_set' = [sl_set EXCEPT ![k] =
                                                SetRecord(nxt, sl_now, own.cache[k], silence_docs', k,
                                                          sl_set[k].shadowed)]
                         ELSE /\ silence_cache' = own.cache
                              /\ UNCHANGED <<silence_docs, sl_set>>
                    /\ UNCHANGED ra_last
                    /\ sl_outcome' =
                           IF sl_rule.run_enhancements_first /\ drop THEN "dropped"
                           ELSE IF ~sl_rule.aggregation THEN "alerted"
                           ELSE "aggregated"
        /\ UNCHANGED <<sl_now, sl_rule, s3_step>>
        /\ UNCHANGED notSilence

\* "--silence <duration>" run by another process for key k (silence): one
\* set_realert(k, now + d, 0), seen here as a silence document.
SilenceCommand(k, d) ==
    /\ silence_docs' = WriteSilenceDoc(silence_docs, k, sl_now + d, 0, TRUE)
    /\ silence_docs' # silence_docs
    /\ sl_op' = <<"silence", k>>
    /\ sl_set' = [sl_set EXCEPT ![k].shadowed = TRUE]
    /\ UNCHANGED <<sl_now, sl_rule, silence_cache, sl_outcome, ra_last, s3_step>>
    /\ UNCHANGED notSilence

\* cleanup_silence_cache: every entry with now >= until is removed.
cleanup_silence_cache ==
    /\ silence_cache' =
          [k \in SilenceKeys |->
              IF silence_cache[k] # NoEntry /\ sl_now >= silence_cache[k].until
                THEN NoEntry ELSE silence_cache[k]]
    /\ sl_op' = <<"cleanup", "">>
    /\ UNCHANGED <<sl_now, sl_rule, silence_docs, sl_outcome, ra_last, sl_set, s3_step>>
    /\ UNCHANGED notSilence

\* The process restarts: __init__ leaves an empty silence cache.
SilenceRestart ==
    /\ silence_cache' = [k \in SilenceKeys |-> NoEntry]
    /\ sl_op' = <<"restart", "">>
    /\ UNCHANGED <<sl_now, sl_rule, silence_docs, sl_outcome, ra_last, sl_set, s3_step>>
    /\ UNCHANGED notSilence

SilenceAdvance ==
    /\ sl_now < MaxSilenceNow
    /\ sl_now' = sl_now + 1
    /\ sl_op' = <<"clock", "">>
    /\ UNCHANGED <<sl_rule, silence_cache, silence_docs, sl_outcome, ra_last, sl_set, s3_step>>
    /\ UNCHANGED notSilence

SilenceNext ==
    \/ \E k \in MatchKeys, es1, es2, wb, drop \in BOOLEAN : ProcessMatch(k, es1, es2, wb, drop)
    \/ \E k \in SilenceKeys : SilenceCommand(k, 2)
    \/ cleanup_silence_cache
    \/ SilenceRestart
    \/ SilenceAdvance

(***************************************************************************)
(* The realert schedule alone: next_alert_time called for a key at a time   *)
(* of the caller's choice, its result stored with set_realert.  Time is in  *)
(* units of 10 seconds.                                                     *)
(***************************************************************************)

\* realert = 1 minute and exponential_realert = 1 hour.
S3_rule ==
    [realert |-> 6, exponential_realert |-> 360,
     aggregation |-> FALSE, run_enhancements_first |-> FALSE]

\* The calls of the scenario: t = 0, 30 s, 70 s and 3 h.
S3_times == <<0, 3, 7, 1080>>

\* The times at which this part makes its calls: the times of the scenario,
\* and times inside and past each wait of the schedule.
RealertClock == {3, 7, 10, 15, 31, 60, 150, 400, 1080, 1090}

RealertInit ==
    /\ sl_now = 0
    /\ sl_rule = S3_rule
    /\ silence_cache = [k \in SilenceKeys |-> NoEntry]
    /\ silence_docs = [k \in SilenceKeys |-> NoEntry]
    /\ sl_op = <<"init", "">>
    /\ sl_outcome = "none"
    /\ ra_last = [t |-> None, pre |-> NoEntry, res |-> <<None, 0>>]
    /\ sl_set = [k \in SilenceKeys |-> NoSet]
    /\ s3_step = 0

\* A rule whose exponential_realert is as long as its realert.
CappedRule ==
    [realert |-> 8, exponential_realert |-> 8,
     aggregation |-> FALSE, run_enhancements_first |-> FALSE]

\* The realert schedule of CappedRule, outside the scenario.
CappedInit ==
    /\ sl_now = 0
    /\ sl_rule = CappedRule
    /\ silence_cache = [k \in SilenceKeys |-> NoEntry]
    /\ silence_docs = [k \in SilenceKeys |-> NoEntry]
    /\ sl_op = <<"init", "">>
    /\ sl_outcome = "none"
    /\ ra_last = [t |-> None, pre |-> NoEntry, res |-> <<None, 0>>]
    /\ sl_set = [k \in SilenceKeys |-> NoSet]
    /\ s3_step = None

\* run_rule lines 930-932 for an alert that is sent: next_alert_time(rule,
\* key, ts_now()) and set_realert with its result (wb: the writeback succeeds).
RealertAlert(k, wb) ==
    LET nxt == next_alert_time(sl_rule, silence_cache, k, sl_now)
    IN  /\ nxt[2] <= MaxExponent
        /\ silence_cache' = set_realert_cache(silence_cache, k, nxt[1], nxt[2])
        /\ silence_docs' = WriteSilenceDoc(silence_docs, k, nxt[1], nxt[2], wb)
        /\ ra_last' = [t |-> sl_now, pre |-> silence_cache[k], res |-> nxt]
        /\ s3_step' = IF s3_step # None /\ s3_step < Len(S3_times) /\ sl_now = S3_times[s3_step + 1]
                        THEN s3_step + 1 ELSE None
        /\ sl_op' = <<"alert", k>>
        /\ sl_set' = [sl_set EXCEPT ![k] =
                          SetRecord(nxt, sl_now, silence_cache[k], silence_docs', k,
                                    sl_set[k].shadowed)]
        /\ UNCHANGED <<sl_now, sl_rule, sl_outcome>>
        /\ UNCHANGED notSilence

RealertAdvance(t) ==
    /\ t > sl_now
    /\ sl_now' = t
    /\ sl_op' = <<"clock", "">>
    /\ UNCHANGED <<sl_rule, silence_cache, silence_docs, sl_outcome, ra_last, sl_set, s3_step>>
    /\ UNCHANGED notSilence

RealertNext ==
    \/ \E k \in MatchKeys, wb \in BOOLEAN : RealertAlert(k, wb)
    \/ \E t \in RealertClock : RealertAdvance(t)

(***************************************************************************)
(* PART 4 - the time cursor of a rule and its seen-hit map: set_starttime,  *)
(* get_starttime, run_rule with its segments, run_query with                *)
(* remove_duplicate_events, and remove_old_events, for one rule started     *)
(* without --start and --end, without allow_buffer_time_overlap and         *)
(* without bucket_interval.  The time unit is run_every.                    *)
(***************************************************************************)

\* The clock starts here, late enough for every window start to be positive.
CursorEpoch == 8

\* The clock stops this long after CursorEpoch.
CursorSpan == 3

\* Events are indexed at these times.
EventTimes == {CursorEpoch, CursorEpoch + 1}

\* conf['run_every'], the time unit.
run_every == 1

\* conf['old_query_limit'].
old_query_limit == 4

\* The rule of scenario S1: a search rule with buffer_time 5.
S1_rule ==
    [mode |-> "search", buffer_time |-> 5, timeframe |-> None,
     scan_entire_timeframe |-> FALSE, query_delay |-> 0]

\* The rule configurations explored.  mode "count" stands for use_count_query
\* and use_terms_query, "aggregation" for aggregation_query_element.
CursorRules ==
    {S1_rule,
     [mode |-> "search", buffer_time |-> 2, timeframe |-> None,
      scan_entire_timeframe |-> FALSE, query_delay |-> 1],
     [mode |-> "search", buffer_time |-> 1, timeframe |-> 4,
      scan_entire_timeframe |-> TRUE, query_delay |-> 0],
     [mode |-> "count", buffer_time |-> 2, timeframe |-> None,
      scan_entire_timeframe |-> FALSE, query_delay |-> 0],
     [mode |-> "count", buffer_time |-> 2, timeframe |-> 2,
      scan_entire_timeframe |-> TRUE, query_delay |-> 0],
     [mode |-> "aggregation", buffer_time |-> 2, timeframe |-> None,
      scan_entire_timeframe |-> FALSE, query_delay |-> 0]}

NoTick ==
    [now |-> None, last_run_end |-> None, outcome |-> "none", start |-> None,
     endtime |-> None, bound_min |-> None, bound_prev |-> None, num_dupes |-> 0,
     dupes |-> {}, queries |-> <<>>, previous_endtime |-> None, status |-> None]

NoPrev == [now |-> None, last_run_end |-> None]

CursorState(rule) ==
    /\ cu_now = CursorEpoch
    /\ cu_rule = rule
    /\ cu_starttime = None
    /\ cu_minimum_starttime = None
    /\ cu_previous_endtime = None
    /\ cu_processed_hits = {}
    /\ cu_events = {}
    /\ cu_added = {}
    /\ cu_readded = {}
    /\ cu_counted = {}
    /\ cu_recounted = {}
    /\ cu_status = None
    /\ cu_tick = NoTick
    /\ cu_prev = NoPrev
    /\ cu_ran = FALSE

CursorIdle == CursorState(S1_rule)

CursorInit == \E rule \in CursorRules : CursorState(rule)

\* get_starttime: the endtime of the newest status document when the search
\* succeeds (es_ok) and the document is younger than old_query_limit.
get_starttime(status, now, es_ok) ==
    IF es_ok /\ status # None /\ now - status < old_query_limit THEN status ELSE None

\* set_starttime taking endtime - buffer_time whatever the bounds are.
set_starttime_always_buffer(rule, starttime, minimum_starttime, previous_endtime, endtime, last_run_end) ==
    IF starttime = None /\ ~rule.scan_entire_timeframe /\ last_run_end # None
      THEN [starttime |-> last_run_end, minimum_starttime |-> last_run_end]
      ELSE [starttime |-> endtime - rule.buffer_time, minimum_starttime |-> minimum_starttime]

\* set_starttime resuming without remembering the resume point.
set_starttime_no_minimum(rule, starttime, minimum_starttime, previous_endtime, endtime, last_run_end) ==
    IF starttime = None /\ ~rule.scan_entire_timeframe /\ last_run_end # None
      THEN [starttime |-> last_run_end, minimum_starttime |-> minimum_starttime]
      ELSE [starttime |-> IF previous_endtime # None THEN previous_endtime
                                                     ELSE endtime - rule.buffer_time,
            minimum_starttime |-> minimum_starttime]

\* set_starttime: the starttime and minimum_starttime it leaves in the rule.
set_starttime(rule, starttime, minimum_starttime, previous_endtime, endtime, last_run_end) ==
    IF starttime = None /\ ~rule.scan_entire_timeframe /\ last_run_end # None
      THEN [starttime |-> last_run_end, minimum_starttime |-> last_run_end]
      ELSE LET buffer_delta ==
                   IF ~rule.scan_entire_timeframe THEN endtime - rule.buffer_time
                                                  ELSE endtime - rule.timeframe
               s == IF rule.mode # "count"
                      THEN IF minimum_starttime # None /\ minimum_starttime > buffer_delta
                             THEN minimum_starttime
                             ELSE IF previous_endtime # None /\ previous_endtime < buffer_delta
                                    THEN previous_endtime
                                    ELSE buffer_delta
                      ELSE IF ~rule.scan_entire_timeframe
                             THEN IF previous_endtime # None THEN previous_endtime
                                                             ELSE endtime - run_every
                             ELSE endtime - rule.timeframe
           IN  [starttime |-> s, minimum_starttime |-> minimum_starttime]

get_segment_size(rule) ==
    IF rule.mode = "count" THEN run_every ELSE rule.buffer_time

\* run_query for the window (start, end] with q the seen-hit map, the hits the
\* rule type was given, num_dupes and the windows queried so far; ok: the
\* search succeeded.  In search mode the hits not in processed_hits are
\* remembered and passed to add_data.  In count and terms mode the count
\* or the buckets of the window go to add_count_data / add_terms_data.
run_query(rule, q, start, end, ok) ==
    IF ~ok THEN [q EXCEPT !.ok = FALSE, !.queries = Append(@, <<start, end>>)]
    ELSE IF rule.mode = "count"
      THEN LET units == {t \in (start + 1)..end : TRUE}
           IN  [q EXCEPT !.queries = Append(@, <<start, end>>),
                         !.counted = @ \cup units,
                         !.recounted = @ \cup (units \cap q.counted)]
    ELSE IF rule.mode # "search" THEN [q EXCEPT !.queries = Append(@, <<start, end>>)]
    ELSE LET data == {e \in cu_events : start < e /\ e <= end}
             new_events == data \ q.processed_hits
         IN  [queries |-> Append(q.queries, <<start, end>>),
              counted |-> q.counted, recounted |-> q.recounted,
              processed_hits |-> q.processed_hits \cup new_events,
              added |-> q.added \cup new_events,
              readded |-> q.readded \cup (new_events \cap q.added),
              num_dupes |-> q.num_dupes + (Cardinality(data) - Cardinality(new_events)),
              dupes |-> q.dupes \cup (data \cap q.processed_hits),
              ok |-> TRUE]

\* Faulty variant: each query of the loop runs to the end of the window.
RECURSIVE RunSegmentsToEnd(_, _, _, _, _, _)
RunSegmentsToEnd(rule, q, starttime, endtime, failAt, n) ==
    IF endtime - starttime > get_segment_size(rule)
      THEN LET tmp_endtime == starttime + get_segment_size(rule)
               q2 == run_query(rule, q, starttime, endtime, n # failAt)
           IN  IF ~q2.ok
                 THEN [q |-> q2, starttime |-> starttime, tmp_endtime |-> tmp_endtime, n |-> n]
                 ELSE RunSegmentsToEnd(rule, q2, tmp_endtime, endtime, failAt, n + 1)
      ELSE [q |-> q, starttime |-> starttime, tmp_endtime |-> starttime, n |-> n]

\* The while loop of run_rule: one query per segment_size while more than a
\* segment is left; the query numbered failAt fails.
RECURSIVE RunSegments(_, _, _, _, _, _)
RunSegments(rule, q, starttime, endtime, failAt, n) ==
    IF endtime - starttime > get_segment_size(rule)
      THEN LET tmp_endtime == starttime + get_segment_size(rule)
               q2 == run_query(rule, q, starttime, tmp_endtime, n # failAt)
           IN  IF ~q2.ok
                 THEN [q |-> q2, starttime |-> starttime, tmp_endtime |-> tmp_endtime, n |-> n]
                 ELSE RunSegments(rule, q2, tmp_endtime, endtime, failAt, n + 1)
      ELSE [q |-> q, starttime |-> starttime, tmp_endtime |-> starttime, n |-> n]

\* Faulty variant: an aggregation tick keeps its endtime when a partial tail
\* is left after the last full segment.
run_rule_keeping_endtime(rule, st, q, now, endtime, failAt) ==
    IF now <= st.starttime
      THEN [q |-> q, starttime |-> st.starttime, endtime |-> endtime, outcome |-> "future"]
      ELSE LET seg == RunSegments(rule, q, st.starttime, endtime, failAt, 1)
           IN  IF ~seg.q.ok
                 THEN [q |-> seg.q, starttime |-> seg.starttime, endtime |-> endtime,
                       outcome |-> "failed"]
               ELSE IF rule.mode = "aggregation"
                 THEN IF endtime - seg.tmp_endtime = get_segment_size(rule)
                        THEN LET q2 == run_query(rule, seg.q, seg.tmp_endtime, endtime,
                                                 seg.n # failAt)
                             IN  [q |-> q2, starttime |-> seg.starttime, endtime |-> endtime,
                                  outcome |-> IF q2.ok THEN "done" ELSE "failed"]
                      ELSE IF st.starttime = seg.tmp_endtime
                        THEN [q |-> seg.q, starttime |-> st.starttime, endtime |-> endtime,
                              outcome |-> "empty"]
                      ELSE [q |-> seg.q, starttime |-> seg.starttime,
                            endtime |-> endtime, outcome |-> "done"]
               ELSE LET q2 == run_query(rule, seg.q, seg.starttime, endtime, seg.n # failAt)
                    IN  [q |-> q2, starttime |-> seg.starttime, endtime |-> endtime,
                         outcome |-> IF q2.ok THEN "done" ELSE "failed"]

\* run_rule from set_starttime to the last query: the seen-hit map and the
\* cursor it leaves, the endtime it ends with and how it ended.
run_rule(rule, st, q, now, endtime, failAt) ==
    IF now <= st.starttime
      THEN [q |-> q, starttime |-> st.starttime, endtime |-> endtime, outcome |-> "future"]
      ELSE LET seg == RunSegments(rule, q, st.starttime, endtime, failAt, 1)
           IN  IF ~seg.q.ok
                 THEN [q |-> seg.q, starttime |-> seg.starttime, endtime |-> endtime,
                       outcome |-> "failed"]
               ELSE IF rule.mode = "aggregation"
                 THEN IF endtime - seg.tmp_endtime = get_segment_size(rule)
                        THEN LET q2 == run_query(rule, seg.q, seg.tmp_endtime, endtime,
                                                 seg.n # failAt)
                             IN  [q |-> q2, starttime |-> seg.starttime, endtime |-> endtime,
                                  outcome |-> IF q2.ok THEN "done" ELSE "failed"]
                      ELSE IF st.starttime = seg.tmp_endtime
                        THEN [q |-> seg.q, starttime |-> st.starttime, endtime |-> endtime,
                              outcome |-> "empty"]
                      ELSE [q |-> seg.q, starttime |-> seg.starttime,
                            endtime |-> seg.tmp_endtime, outcome |-> "done"]
               ELSE LET q2 == run_query(rule, seg.q, seg.starttime, endtime, seg.n # failAt)
                    IN  [q |-> q2, starttime |-> seg.starttime, endtime |-> endtime,
                         outcome |-> IF q2.ok THEN "done" ELSE "failed"]

\* remove_old_events: forget the hits older than buffer_time + query_delay.
\* The variant leaves query_delay out.
remove_old_events_no_delay(rule, processed_hits, now) ==
    {id \in processed_hits : ~(now - id > rule.buffer_time)}

remove_old_events(rule, processed_hits, now) ==
    {id \in processed_hits : ~(now - id > rule.buffer_time + rule.query_delay)}

\* handle_rule_execution: one tick of the rule's job.  es_ok: the search for
\* the last status document succeeds; failAt: the query of the tick that
\* fails (0: none); wb: the status document is written.
RuleTick(es_ok, failAt, wb) ==
    LET endtime == cu_now - cu_rule.query_delay
        last_run_end ==
            IF cu_starttime = None /\ ~cu_rule.scan_entire_timeframe
              THEN get_starttime(cu_status, cu_now, es_ok) ELSE None
        st == set_starttime(cu_rule, cu_starttime, cu_minimum_starttime,
                            cu_previous_endtime, endtime, last_run_end)
        q0 == [processed_hits |-> cu_processed_hits, added |-> cu_added,
               readded |-> cu_readded, counted |-> cu_counted,
               recounted |-> cu_recounted, num_dupes |-> 0, dupes |-> {}, ok |-> TRUE,
               queries |-> <<>>]
    IN  /\ ~cu_ran
        /\ cu_ran' = TRUE
        /\ \E r \in {run_rule(cu_rule, st, q0, cu_now, endtime, failAt)} :
               /\ cu_starttime' = r.starttime
               /\ cu_minimum_starttime' = st.minimum_starttime
               /\ cu_previous_endtime' =
                      IF r.outcome = "done" THEN r.endtime ELSE cu_previous_endtime
               /\ cu_status' = IF r.outcome = "done" /\ wb THEN r.endtime ELSE cu_status
               /\ cu_processed_hits' = remove_old_events(cu_rule, r.q.processed_hits, cu_now)
               /\ cu_added' = r.q.added
               /\ cu_readded' = r.q.readded
               /\ cu_counted' = r.q.counted
               /\ cu_recounted' = r.q.recounted
               /\ cu_prev' = [now |-> cu_tick.now, last_run_end |-> cu_tick.last_run_end]
               /\ cu_tick' = [now |-> cu_now, last_run_end |-> last_run_end,
                              outcome |-> r.outcome, start |-> st.starttime,
                              endtime |-> r.endtime, bound_min |-> st.minimum_starttime,
                              bound_prev |-> cu_previous_endtime,
                              num_dupes |-> r.q.num_dupes, dupes |-> r.q.dupes,
                              queries |-> r.q.queries,
                              previous_endtime |-> cu_previous_endtime',
                              status |-> cu_status']
        /\ UNCHANGED <<cu_now, cu_rule, cu_events>>
        /\ UNCHANGED notCursor

\* An event with the current time as its timestamp is indexed.
IndexEvent ==
    /\ cu_now \in EventTimes
    /\ cu_now \notin cu_events
    /\ cu_events' = cu_events \cup {cu_now}
    /\ UNCHANGED <<cu_now, cu_rule, cu_starttime, cu_minimum_starttime, cu_previous_endtime,
                   cu_processed_hits, cu_added, cu_readded, cu_counted,
                   cu_recounted, cu_status, cu_tick, cu_prev,
                   cu_ran>>
    /\ UNCHANGED notCursor

\* cleanup_rule_memory, the part of the memory GC job that touches the
\* seen-hit map.
cleanup_rule_memory ==
    /\ cu_processed_hits' = remove_old_events(cu_rule, cu_processed_hits, cu_now)
    /\ cu_processed_hits' # cu_processed_hits
    /\ UNCHANGED <<cu_now, cu_rule, cu_starttime, cu_minimum_starttime, cu_previous_endtime,
                   cu_events, cu_added, cu_readded, cu_counted,
                   cu_recounted, cu_status, cu_tick, cu_prev, cu_ran>>
    /\ UNCHANGED notCursor

\* load_rule_changes for a changed rule file: init_rule copies processed_hits,
\* starttime and minimum_starttime to the new instance, previous_endtime not.
CursorReload ==
    /\ cu_previous_endtime # None
    /\ cu_previous_endtime' = None
    /\ UNCHANGED <<cu_now, cu_rule, cu_starttime, cu_minimum_starttime, cu_processed_hits,
                   cu_events, cu_added, cu_readded, cu_counted,
                   cu_recounted, cu_status, cu_tick, cu_prev, cu_ran>>
    /\ UNCHANGED notCursor

\* The process starts again: the rule is loaded anew, with a new rule type;
\* the backend and the writeback index keep what they hold.
CursorRestart ==
    /\ cu_tick # NoTick
    /\ cu_starttime' = None
    /\ cu_minimum_starttime' = None
    /\ cu_previous_endtime' = None
    /\ cu_processed_hits' = {}
    /\ cu_added' = {}
    /\ cu_readded' = {}
    /\ cu_counted' = {}
    /\ cu_recounted' = {}
    /\ cu_tick' = NoTick
    /\ cu_prev' = NoPrev
    /\ UNCHANGED <<cu_now, cu_rule, cu_events, cu_status, cu_ran>>
    /\ UNCHANGED notCursor

CursorAdvance ==
    /\ cu_now < CursorEpoch + CursorSpan
    /\ cu_now' = cu_now + 1
    /\ cu_ran' = FALSE
    /\ UNCHANGED <<cu_rule, cu_starttime, cu_minimum_starttime, cu_previous_endtime,
                   cu_processed_hits, cu_events, cu_added, cu_readded, cu_counted,
                   cu_recounted, cu_status, cu_tick,
                   cu_prev>>
    /\ UNCHANGED notCursor

CursorNext ==
    \/ \E es_ok \in BOOLEAN, failAt \in 0..2, wb \in BOOLEAN : RuleTick(es_ok, failAt, wb)
    \/ IndexEvent
    \/ cleanup_rule_memory
    \/ CursorReload
    \/ CursorRestart
    \/ CursorAdvance

(***************************************************************************)
(* PART 5 - the aggregation queue of one rule with an aggregation and an    *)
(* aggregation_key, and the pending-alert sweep: add_aggregated_alert,      *)
(* find_pending_aggregate_alert, send_pending_alerts with                   *)
(* find_recent_pending_alerts and get_aggregated_matches, send_alert's      *)
(* writeback, and the cleanup of expired aggregates.  The documents         *)
(* send_alert writes with alert_sent = true are left out: no query of the   *)
(* program reads them.  add_aggregated_alert and send_pending_alerts each   *)
(* run under alert_lock and are one step each.                              *)
(***************************************************************************)

\* The aggregation_key of a match or document that has none.
NoKey == "none"

\* The aggregation key values of the rule's matches: a value of the
\* aggregation_key field, or none for a match without the field.
AggKeys == {"a", NoKey}

NoDoc == [id |-> None]

\* The rule type produces at most this many matches.
MaxMatches == 2

\* The clock of this part stops here.
MaxAggNow == 2

\* At most this many alert calls fail.
MaxAlertFailures == 1

\* rule['aggregation'], the time a group stays open.
aggregation == 1

\* conf['alert_time_limit'].
alert_time_limit == 1

\* conf['max_aggregation'].
max_aggregation == 1

AggInit ==
    /\ ag_now = 0
    /\ ag_store = {}
    /\ ag_next_id = 1
    /\ ag_current_aggregate_id = [k \in AggKeys |-> None]
    /\ ag_aggregate_alert_time = [k \in AggKeys |-> None]
    /\ ag_agg_matches = <<>>
    /\ ag_next_match = 1
    /\ ag_delivered = [m \in 1..MaxMatches |-> 0]
    /\ ag_failures = 0
    /\ ag_dispatched = {}
    /\ ag_at_restart = {}
    /\ ag_swept = FALSE

\* The documents of a set in the order of their _ids (the order of their
\* @timestamp).
RECURSIVE SortedById(_)
SortedById(docs) ==
    IF docs = {} THEN <<>>
    ELSE LET first == CHOOSE d \in docs : \A e \in docs : d.id <= e.id
         IN  <<first>> \o SortedById(docs \ {first})

\* The documents of a set in the order of their alert_time, the _id breaking
\* ties.
RECURSIVE SortedByAlertTime(_)
SortedByAlertTime(docs) ==
    IF docs = {} THEN <<>>
    ELSE LET first == CHOOSE d \in docs :
                          \A e \in docs : \/ d.alert_time < e.alert_time
                                          \/ d.alert_time = e.alert_time /\ d.id <= e.id
         IN  <<first>> \o SortedByAlertTime(docs \ {first})

\* find_pending_aggregate_alert: the unsent root document of the rule with
\* the latest alert_time after now, of the key when the match has one and of
\* any key when it has none; NoDoc when there is none or the search fails.
find_pending_aggregate_alert(store, key, now, es_ok) ==
    LET hits == {d \in store : /\ d.alert_time > now
                               /\ d.aggregate_id = None
                               /\ key # NoKey => d.key = key}
    IN  IF ~es_ok \/ hits = {} THEN NoDoc
        ELSE CHOOSE d \in hits :
                 \A e \in hits : d.alert_time > e.alert_time
                                 \/ (d.alert_time = e.alert_time /\ d.id >= e.id)

\* Faulty variant: a match whose writeback fails is not kept in agg_matches.
add_aggregated_alert_forgetting(st, match, now, es_ok, wb_ok) ==
    LET key == match.key
        open == \/ st.cur[key] = None
                \/ st.aat[key] # None /\ st.aat[key] < now
        pending_alert == find_pending_aggregate_alert(st.store, key, now, es_ok)
        alert_time == IF open THEN IF pending_alert # NoDoc THEN pending_alert.alert_time
                                                           ELSE now + aggregation
                              ELSE st.aat[key]
        agg_id == IF open THEN IF pending_alert # NoDoc THEN pending_alert.id ELSE None
                          ELSE st.cur[key]
        cur1 == IF open /\ pending_alert # NoDoc
                  THEN [k \in AggKeys |-> IF k = key THEN agg_id ELSE None]
                  ELSE st.cur
        aat1 == IF open THEN [st.aat EXCEPT ![key] = alert_time] ELSE st.aat
        doc == [id |-> st.next_id, key |-> key, alert_time |-> alert_time,
                aggregate_id |-> agg_id, match |-> match]
    IN  IF wb_ok
          THEN [store |-> st.store \cup {doc}, next_id |-> st.next_id + 1,
                cur |-> IF agg_id = None THEN [cur1 EXCEPT ![key] = doc.id] ELSE cur1,
                aat |-> aat1, mem |-> st.mem]
          ELSE [store |-> st.store, next_id |-> st.next_id, cur |-> cur1, aat |-> aat1,
                mem |-> st.mem]

\* add_aggregated_alert on the rule state st = [store, next_id, cur, aat, mem].
add_aggregated_alert(st, match, now, es_ok, wb_ok) ==
    LET key == match.key
        open == \/ st.cur[key] = None
                \/ st.aat[key] # None /\ st.aat[key] < now
        pending_alert == find_pending_aggregate_alert(st.store, key, now, es_ok)
        alert_time == IF open THEN IF pending_alert # NoDoc THEN pending_alert.alert_time
                                                           ELSE now + aggregation
                              ELSE st.aat[key]
        agg_id == IF open THEN IF pending_alert # NoDoc THEN pending_alert.id ELSE None
                          ELSE st.cur[key]
        cur1 == IF open /\ pending_alert # NoDoc
                  THEN [k \in AggKeys |-> IF k = key THEN agg_id ELSE None]
                  ELSE st.cur
        aat1 == IF open THEN [st.aat EXCEPT ![key] = alert_time] ELSE st.aat
        doc == [id |-> st.next_id, key |-> key, alert_time |-> alert_time,
                aggregate_id |-> agg_id, match |-> match]
    IN  IF wb_ok
          THEN [store |-> st.store \cup {doc}, next_id |-> st.next_id + 1,
                cur |-> IF agg_id = None THEN [cur1 EXCEPT ![key] = doc.id] ELSE cur1,
                aat |-> aat1, mem |-> st.mem]
          ELSE [store |-> st.store, next_id |-> st.next_id, cur |-> cur1, aat |-> aat1,
                mem |-> Append(st.mem, match)]

AggState ==
    [store |-> ag_store, next_id |-> ag_next_id, cur |-> ag_current_aggregate_id,
     aat |-> ag_aggregate_alert_time, mem |-> ag_agg_matches]

SetAggState(st) ==
    /\ ag_store' = st.store
    /\ ag_next_id' = st.next_id
    /\ ag_current_aggregate_id' = st.cur
    /\ ag_aggregate_alert_time' = st.aat
    /\ ag_agg_matches' = st.mem

\* What goes wrong in one add_aggregated_alert: nothing, the search for a
\* pending root, or the writeback.
AddFaults == {"none", "search", "writeback"}

\* run_rule lines 934-950: a match of the rule type goes to
\* add_aggregated_alert.
AddMatch(key, fault) ==
    /\ ag_next_match <= MaxMatches
    /\ \E st \in {add_aggregated_alert(AggState, [n |-> ag_next_match, key |-> key], ag_now,
                                        fault # "search", fault # "writeback")} :
           SetAggState(st)
    /\ ag_next_match' = ag_next_match + 1
    /\ ag_swept' = FALSE
    /\ ag_dispatched' = {}
    /\ UNCHANGED <<ag_now, ag_delivered, ag_failures, ag_at_restart>>
    /\ UNCHANGED notAgg

\* run_rule lines 858-861, one turn of the loop: the last of agg_matches is
\* popped and goes to add_aggregated_alert again.
RetryAggMatch(fault) ==
    /\ ag_agg_matches # <<>>
    /\ LET n == Len(ag_agg_matches)
           popped == [AggState EXCEPT !.mem = SubSeq(ag_agg_matches, 1, n - 1)]
       IN  \E st \in {add_aggregated_alert(popped, ag_agg_matches[n], ag_now,
                                            fault # "search", fault # "writeback")} :
               SetAggState(st)
    /\ ag_swept' = FALSE
    /\ ag_dispatched' = {}
    /\ UNCHANGED <<ag_now, ag_next_match, ag_delivered, ag_failures, ag_at_restart>>
    /\ UNCHANGED notAgg

\* get_aggregated_matches, the loop over the first max_aggregation documents
\* stored under the root: each is taken and then deleted; the delete numbered
\* failAt of the sweep raises and ends the loop.
RECURSIVE AggregatedLoop(_, _, _, _)
AggregatedLoop(hits, i, g, failAt) ==
    IF i > Len(hits) \/ i > max_aggregation THEN g
    ELSE LET taken == [g EXCEPT !.matches = Append(g.matches, hits[i].match),
                                !.ndel = g.ndel + 1]
         IN  IF taken.ndel = failAt THEN taken
             ELSE AggregatedLoop(hits, i + 1,
                                 [taken EXCEPT !.store = taken.store \ {hits[i]}], failAt)

get_aggregated_matches(store, id, ndel, agg_ok, failAt) ==
    LET g0 == [matches |-> <<>>, store |-> store, ndel |-> ndel]
    IN  IF ~agg_ok THEN g0
        ELSE AggregatedLoop(SortedById({c \in store : c.aggregate_id = id}), 1, g0, failAt)

\* The documents send_alert writes for an alert that no alerter sent: the
\* first without aggregate_id, the others under it.
RetryDocs(matches, alert_time, next_id) ==
    {[id |-> next_id + i - 1, key |-> NoKey, alert_time |-> alert_time,
      aggregate_id |-> IF i = 1 THEN None ELSE next_id, match |-> matches[i]] :
        i \in 1..Len(matches)}

\* send_alert on the sweep state sw: the alerters send the matches (alert_ok)
\* or fail, and then the matches are written back as unsent (wb_ok).
send_alert(sw, matches, alert_time, alert_ok, wb_ok) ==
    IF matches = <<>> THEN sw
    ELSE IF alert_ok
      THEN [sw EXCEPT !.delivered =
                [m \in 1..MaxMatches |->
                    IF \E i \in 1..Len(matches) : matches[i].n = m
                      THEN Min(sw.delivered[m] + 1, 2) ELSE sw.delivered[m]]]
      ELSE IF wb_ok
        THEN [sw EXCEPT !.failures = sw.failures + 1,
                        !.store = sw.store \cup RetryDocs(matches, alert_time, sw.next_id),
                        !.next_id = sw.next_id + Len(matches)]
        ELSE [sw EXCEPT !.failures = sw.failures + 1]

\* send_pending_alerts lines 1611-1615 without the pop: the root's entry
\* stays in current_aggregate_id.
pop_current_aggregate_id_never(cur, id) == cur

\* send_pending_alerts lines 1611-1615: the key whose current_aggregate_id is
\* the dispatched root is popped.
pop_current_aggregate_id(cur, id) ==
    IF \E k \in AggKeys : cur[k] = id
      THEN LET qk == CHOOSE k \in AggKeys : cur[k] = id
           IN  [cur EXCEPT ![qk] = None]
      ELSE cur

\* send_pending_alerts, the body of its first loop for one pending document.
DispatchPending(sw, alert, now, agg_ok, alert_ok, wb_ok, failAt) ==
    IF ~(now > alert.alert_time) THEN sw
    ELSE LET g == get_aggregated_matches(sw.store, alert.id, sw.ndel, agg_ok, failAt)
             matches == <<alert.match>> \o g.matches
             sent == send_alert([sw EXCEPT !.store = g.store, !.ndel = g.ndel],
                                matches, alert.alert_time, alert_ok, wb_ok)
             deleted == sent.ndel + 1 # failAt
         IN  [sent EXCEPT
                 !.cur = pop_current_aggregate_id(sent.cur, alert.id),
                 !.ndel = sent.ndel + 1,
                 !.store = IF deleted THEN {d \in sent.store : d.id # alert.id} ELSE sent.store,
                 !.dispatched = sent.dispatched \cup
                     {[root |-> alert.id,
                       stored |-> {c.match.n : c \in {c \in sw.store : c.aggregate_id = alert.id}},
                       alerted |-> {matches[i].n : i \in 1..Len(matches)},
                       keys |-> {matches[i].key : i \in 1..Len(matches)}]}]

RECURSIVE PendingLoop(_, _, _, _, _, _, _, _)
PendingLoop(sw, pending_alerts, i, now, agg_ok, alert_ok, wb_ok, failAt) ==
    IF i > Len(pending_alerts) THEN sw
    ELSE PendingLoop(DispatchPending(sw, pending_alerts[i], now, agg_ok, alert_ok, wb_ok, failAt),
                     pending_alerts, i + 1, now, agg_ok, alert_ok, wb_ok, failAt)

\* find_recent_pending_alerts: the unsent documents without aggregate_id whose
\* alert_time lies in [now - alert_time_limit, now], earliest first.
find_recent_pending_alerts(store, now, es_ok) ==
    IF ~es_ok THEN <<>>
    ELSE SortedByAlertTime({d \in store : /\ d.aggregate_id = None
                                          /\ d.alert_time >= now - alert_time_limit
                                          /\ d.alert_time <= now})

\* send_pending_alerts, its second loop: the matches kept in memory are
\* alerted for every key whose aggregate_alert_time has passed.
RECURSIVE MemoryLoop(_, _, _, _, _)
MemoryLoop(sw, keys, now, alert_ok, wb_ok) ==
    IF keys = {} THEN sw
    ELSE LET key == CHOOSE k \in keys : TRUE
             OfKey(m) == m.key = key
             NotOfKey(m) == m.key # key
         IN  IF sw.aat[key] # None /\ now > sw.aat[key]
               THEN MemoryLoop([send_alert(sw, SelectSeq(sw.mem, OfKey), now, alert_ok, wb_ok)
                                    EXCEPT !.mem = SelectSeq(sw.mem, NotOfKey)],
                               keys \ {key}, now, alert_ok, wb_ok)
               ELSE MemoryLoop(sw, keys \ {key}, now, alert_ok, wb_ok)

send_pending_alerts(sw, now, es_ok, agg_ok, alert_ok, wb_ok, failAt) ==
    LET sw1 == PendingLoop(sw, find_recent_pending_alerts(sw.store, now, es_ok), 1, now,
                           agg_ok, alert_ok, wb_ok, failAt)
    IN  IF sw1.mem # <<>> THEN MemoryLoop(sw1, AggKeys, now, alert_ok, wb_ok) ELSE sw1

\* What goes wrong in one sweep: nothing, the search for pending documents,
\* the searches of get_aggregated_matches, the alerters (with send_alert's
\* writebacks working or not), or the first or the second delete.
SweepFaults ==
    {"none", "find", "aggregated", "alert", "alert_writeback", "delete1", "delete2"}

\* The pending-alert sweep job.
Sweep(fault) ==
    /\ fault \in {"alert", "alert_writeback"} => ag_failures < MaxAlertFailures
    /\ LET sw0 == [store |-> ag_store, next_id |-> ag_next_id,
                   cur |-> ag_current_aggregate_id, aat |-> ag_aggregate_alert_time,
                   mem |-> ag_agg_matches, delivered |-> ag_delivered,
                   failures |-> ag_failures, ndel |-> 0, dispatched |-> {}]
           failAt == IF fault = "delete1" THEN 1 ELSE IF fault = "delete2" THEN 2 ELSE 0
       IN  \E sw \in {send_pending_alerts(sw0, ag_now, fault # "find", fault # "aggregated",
                                          fault \notin {"alert", "alert_writeback"},
                                          fault # "alert_writeback", failAt)} :
               /\ SetAggState(sw)
               /\ ag_delivered' = sw.delivered
               /\ ag_failures' = Min(sw.failures, MaxAlertFailures)
               /\ ag_dispatched' = sw.dispatched
    /\ ag_swept' = TRUE
    /\ UNCHANGED <<ag_now, ag_next_match, ag_at_restart>>
    /\ UNCHANGED notAgg

\* cleanup_expired_aggregates (and the same lines of cleanup_rule_memory): the
\* keys whose aggregate_alert_time has passed leave aggregate_alert_time and
\* current_aggregate_id.
cleanup_expired_aggregates ==
    LET expired_keys == {k \in AggKeys : /\ ag_aggregate_alert_time[k] # None
                                         /\ ag_now > ag_aggregate_alert_time[k]}
    IN  /\ expired_keys # {}
        /\ ag_aggregate_alert_time' =
               [k \in AggKeys |-> IF k \in expired_keys THEN None ELSE ag_aggregate_alert_time[k]]
        /\ ag_current_aggregate_id' =
               [k \in AggKeys |-> IF k \in expired_keys THEN None ELSE ag_current_aggregate_id[k]]
        /\ ag_swept' = FALSE
        /\ ag_dispatched' = {}
        /\ UNCHANGED <<ag_now, ag_store, ag_next_id, ag_agg_matches, ag_next_match,
                       ag_delivered, ag_failures, ag_at_restart>>
        /\ UNCHANGED notAgg

\* The process starts again: the rule's state is blank, the writeback index
\* keeps its documents.
AggRestart ==
    /\ ag_current_aggregate_id' = [k \in AggKeys |-> None]
    /\ ag_aggregate_alert_time' = [k \in AggKeys |-> None]
    /\ ag_agg_matches' = <<>>
    /\ ag_dispatched' = {}
    /\ ag_at_restart' = {[id |-> d.id, n |-> d.match.n, alert_time |-> d.alert_time] :
                             d \in {d \in ag_store : d.aggregate_id = None}}
    /\ ag_swept' = FALSE
    /\ UNCHANGED <<ag_now, ag_store, ag_next_id, ag_next_match, ag_delivered, ag_failures>>
    /\ UNCHANGED notAgg

AggAdvance ==
    /\ ag_now < MaxAggNow
    /\ ag_now' = ag_now + 1
    /\ ag_swept' = FALSE
    /\ ag_dispatched' = {}
    /\ UNCHANGED <<ag_store, ag_next_id, ag_current_aggregate_id, ag_aggregate_alert_time,
                   ag_agg_matches, ag_next_match, ag_delivered, ag_failures, ag_at_restart>>
    /\ UNCHANGED notAgg

AggNext ==
    \/ \E key \in AggKeys, fault \in AddFaults : AddMatch(key, fault)
    \/ \E fault \in AddFaults : RetryAggMatch(fault)
    \/ \E fault \in SweepFaults : Sweep(fault)
    \/ cleanup_expired_aggregates
    \/ AggRestart
    \/ AggAdvance

(***************************************************************************)
(* PART 6 - the memory GC job and the caches it cleans.                     *)
(*                                                                          *)
(* cleanup_memory_caches is a job of its own on the scheduler's thread      *)
(* pool; the ticks of the rules run on other threads of the pool.  A tick   *)
(* is several steps here (it starts, remembers hits, handles matches,       *)
(* ends), the GC job is one step between any two of them.  A rule has one   *)
(* aggregation key and one silence key (its name); the _id of a hit is its  *)
(* timestamp, the _id of a pending aggregate is the time it was written at. *)
(***************************************************************************)
GcRuleNames == {"r1", "r2"}

\* gc_now runs from 0 to MaxGcNow.
MaxGcNow == 3

\* The two rules' configuration: r1 searches and aggregates its matches, r2
\* counts (use_count_query: it sees no hit) and alerts with a realert.
GcRuleConf ==
    [n \in GcRuleNames |->
        IF n = "r1"
          THEN [mode |-> "search", buffer_time |-> 1, query_delay |-> 1, realert |-> 0,
                aggregation |-> 1]
          ELSE [mode |-> "count", buffer_time |-> 1, query_delay |-> 0, realert |-> 1,
                aggregation |-> None]]

NoGcOp == [op |-> "none", rules |-> {}, hits |-> {}, keys |-> {}, silence |-> {}, clients |-> {}]

\* After __init__ with two rule files: both rules loaded with blank state,
\* no client made yet, an empty silence cache.
GcInit ==
    /\ gc_now = 0
    /\ gc_rules = GcRuleNames
    /\ gc_disabled_rules = {}
    /\ gc_es_clients = {}
    /\ gc_silence_cache = [n \in GcRuleNames |-> NoEntry]
    /\ gc_processed_hits = [n \in GcRuleNames |-> {}]
    /\ gc_aggregate_alert_time = [n \in GcRuleNames |-> [k \in AggKeys |-> None]]
    /\ gc_current_aggregate_id = [n \in GcRuleNames |-> [k \in AggKeys |-> None]]
    /\ gc_inflight = [n \in GcRuleNames |-> FALSE]
    /\ gc_op = NoGcOp

\* cleanup_silence_cache on a cache: the entries with now >= until leave.
\* The variant keeps the entry that ends at this instant.
silence_cache_cleaned_late(cache, now) ==
    [k \in DOMAIN cache |->
        IF cache[k] # NoEntry /\ now > cache[k].until THEN NoEntry ELSE cache[k]]

silence_cache_cleaned(cache, now) ==
    [k \in DOMAIN cache |->
        IF cache[k] # NoEntry /\ now >= cache[k].until THEN NoEntry ELSE cache[k]]

\* cleanup_es_clients_cache: the clients whose key names neither a loaded nor
\* a disabled rule leave.  The variant looks at the loaded rules only.
cleanup_es_clients_cache_loaded_only(es_clients, loaded, disabled) ==
    {c \in es_clients : c \in loaded}

cleanup_es_clients_cache(es_clients, loaded, disabled) ==
    LET active_rule_names == loaded \cup disabled
    IN  {c \in es_clients : c \in active_rule_names}

\* The expired keys of one rule's aggregate_alert_time (now > alert_time).
\* The variant takes every key that has a deadline.
expired_keys_any(aggregate_alert_time, now) ==
    {k \in DOMAIN aggregate_alert_time : aggregate_alert_time[k] # None}

expired_keys(aggregate_alert_time, now) ==
    {k \in DOMAIN aggregate_alert_time :
        aggregate_alert_time[k] # None /\ now > aggregate_alert_time[k]}

\* A map of a rule without the given keys.
PopKeys(map, keys) == [k \in DOMAIN map |-> IF k \in keys THEN None ELSE map[k]]

\* What an operation took away: the difference of the state before and after.
GcOp(op, touched) ==
    [op |-> op,
     rules |-> touched,
     hits |-> {<<n, id>> \in GcRuleNames \X (0..MaxGcNow + 1) :
                  id \in gc_processed_hits[n] /\ id \notin gc_processed_hits'[n]},
     keys |-> {<<n, k>> \in GcRuleNames \X AggKeys :
                  \/ gc_aggregate_alert_time[n][k] # gc_aggregate_alert_time'[n][k]
                  \/ gc_current_aggregate_id[n][k] # gc_current_aggregate_id'[n][k]},
     silence |-> {n \in GcRuleNames : gc_silence_cache[n] # gc_silence_cache'[n]},
     clients |-> gc_es_clients \ gc_es_clients']

\* handle_rule_execution is called by the scheduler for a loaded rule;
\* run_rule first asks for the rule's client.
GcTickStart(n) ==
    /\ n \in gc_rules
    /\ ~gc_inflight[n]
    /\ gc_inflight' = [gc_inflight EXCEPT ![n] = TRUE]
    /\ gc_es_clients' = gc_es_clients \cup {n}
    /\ gc_op' = NoGcOp
    /\ UNCHANGED <<gc_now, gc_rules, gc_disabled_rules, gc_silence_cache, gc_processed_hits,
                   gc_aggregate_alert_time, gc_current_aggregate_id>>
    /\ UNCHANGED notGc

\* run_query, remove_duplicate_events: the tick remembers a hit of its window.
GcTickHit(n, id) ==
    /\ gc_inflight[n]
    /\ GcRuleConf[n].mode = "search"
    /\ id >= 0
    /\ id \notin gc_processed_hits[n]
    /\ gc_processed_hits' = [gc_processed_hits EXCEPT ![n] = @ \cup {id}]
    /\ gc_op' = NoGcOp
    /\ UNCHANGED <<gc_now, gc_rules, gc_disabled_rules, gc_es_clients, gc_silence_cache,
                   gc_aggregate_alert_time, gc_current_aggregate_id, gc_inflight>>
    /\ UNCHANGED notGc

\* run_rule, one match of the tick: set_realert for a rule with a realert;
\* add_aggregated_alert for a rule with an aggregation, which opens a group
\* for the key when the rule has none that is still open.
GcTickMatch(n, k) ==
    LET rule == GcRuleConf[n]
        open == /\ gc_aggregate_alert_time[n][k] # None
                /\ gc_current_aggregate_id[n][k] # None
                /\ gc_now <= gc_aggregate_alert_time[n][k]
    IN  /\ gc_inflight[n]
        /\ IF rule.realert = 0
             THEN UNCHANGED gc_silence_cache
             ELSE gc_silence_cache' =
                     [gc_silence_cache EXCEPT
                         ![n] = [until |-> gc_now + rule.realert, exponent |-> 0]]
        /\ IF rule.aggregation = None \/ open
             THEN UNCHANGED <<gc_aggregate_alert_time, gc_current_aggregate_id>>
             ELSE /\ gc_aggregate_alert_time' =
                        [gc_aggregate_alert_time EXCEPT ![n][k] = gc_now + rule.aggregation]
                  /\ gc_current_aggregate_id' = [gc_current_aggregate_id EXCEPT ![n][k] = gc_now]
        /\ gc_op' = NoGcOp
        /\ UNCHANGED <<gc_now, gc_rules, gc_disabled_rules, gc_es_clients, gc_processed_hits,
                       gc_inflight>>
        /\ UNCHANGED notGc

\* The end of handle_rule_execution: remove_old_events on the tick's thread.
GcTickEnd(n) ==
    /\ gc_inflight[n]
    /\ gc_inflight' = [gc_inflight EXCEPT ![n] = FALSE]
    /\ gc_processed_hits' =
          [gc_processed_hits EXCEPT ![n] = remove_old_events(GcRuleConf[n], @, gc_now)]
    /\ UNCHANGED <<gc_now, gc_rules, gc_disabled_rules, gc_es_clients, gc_silence_cache,
                   gc_aggregate_alert_time, gc_current_aggregate_id>>
    /\ gc_op' = GcOp("remove_old_events", {n})
    /\ UNCHANGED notGc

\* cleanup_memory_caches, the GC job: cleanup_silence_cache,
\* cleanup_es_clients_cache, cleanup_expired_aggregates, then remove_old_events
\* for every loaded rule.  It takes no lock and asks for no tick.
MemoryCleanupJob ==
    /\ gc_silence_cache' = silence_cache_cleaned(gc_silence_cache, gc_now)
    /\ gc_es_clients' = cleanup_es_clients_cache(gc_es_clients, gc_rules, gc_disabled_rules)
    /\ gc_aggregate_alert_time' =
          [n \in GcRuleNames |->
              IF n \in gc_rules
                THEN PopKeys(gc_aggregate_alert_time[n], expired_keys(gc_aggregate_alert_time[n], gc_now))
                ELSE gc_aggregate_alert_time[n]]
    /\ gc_current_aggregate_id' =
          [n \in GcRuleNames |->
              IF n \in gc_rules
                THEN PopKeys(gc_current_aggregate_id[n], expired_keys(gc_aggregate_alert_time[n], gc_now))
                ELSE gc_current_aggregate_id[n]]
    /\ gc_processed_hits' =
          [n \in GcRuleNames |->
              IF n \in gc_rules
                THEN remove_old_events(GcRuleConf[n], gc_processed_hits[n], gc_now)
                ELSE gc_processed_hits[n]]
    /\ UNCHANGED <<gc_now, gc_rules, gc_disabled_rules, gc_inflight>>
    /\ gc_op' = GcOp("cleanup_memory_caches", gc_rules)
    /\ UNCHANGED notGc

\* handle_pending_alerts after its sweep: cleanup_silence_cache and
\* cleanup_es_clients_cache.
PendingAlertsCleanup ==
    /\ gc_silence_cache' = silence_cache_cleaned(gc_silence_cache, gc_now)
    /\ gc_es_clients' = cleanup_es_clients_cache(gc_es_clients, gc_rules, gc_disabled_rules)
    /\ UNCHANGED <<gc_now, gc_rules, gc_disabled_rules, gc_processed_hits,
                   gc_aggregate_alert_time, gc_current_aggregate_id, gc_inflight>>
    /\ gc_op' = GcOp("handle_pending_alerts", {})
    /\ UNCHANGED notGc

\* cleanup_rule_memory(rule) of load_rule_changes: remove_old_events, then the
\* expired keys leave both maps.
RuleMemoryCleaned(n) ==
    /\ gc_processed_hits' =
          [gc_processed_hits EXCEPT ![n] = remove_old_events(GcRuleConf[n], @, gc_now)]
    /\ gc_aggregate_alert_time' =
          [gc_aggregate_alert_time EXCEPT
              ![n] = PopKeys(@, expired_keys(gc_aggregate_alert_time[n], gc_now))]
    /\ gc_current_aggregate_id' =
          [gc_current_aggregate_id EXCEPT
              ![n] = PopKeys(@, expired_keys(gc_aggregate_alert_time[n], gc_now))]

\* load_rule_changes, the rule file of a loaded rule was deleted.
GcRuleDeleted(n) ==
    /\ n \in gc_rules
    /\ RuleMemoryCleaned(n)
    /\ gc_rules' = gc_rules \ {n}
    /\ UNCHANGED <<gc_now, gc_disabled_rules, gc_es_clients, gc_silence_cache, gc_inflight>>
    /\ gc_op' = GcOp("cleanup_rule_memory", {n})
    /\ UNCHANGED notGc

\* load_rule_changes, the rule file of a loaded rule now says is_enabled: false.
GcRuleDisabled(n) ==
    /\ n \in gc_rules
    /\ RuleMemoryCleaned(n)
    /\ gc_rules' = gc_rules \ {n}
    /\ gc_disabled_rules' = gc_disabled_rules \cup {n}
    /\ UNCHANGED <<gc_now, gc_es_clients, gc_silence_cache, gc_inflight>>
    /\ gc_op' = GcOp("cleanup_rule_memory", {n})
    /\ UNCHANGED notGc

\* load_rule_changes, a rule file that was deleted is there again: init_rule
\* gives the rule blank maps, and the client of the name is dropped.
GcRuleAdded(n) ==
    /\ n \notin gc_rules \cup gc_disabled_rules
    /\ ~gc_inflight[n]
    /\ gc_rules' = gc_rules \cup {n}
    /\ gc_es_clients' = gc_es_clients \ {n}
    /\ gc_processed_hits' = [gc_processed_hits EXCEPT ![n] = {}]
    /\ gc_aggregate_alert_time' = [gc_aggregate_alert_time EXCEPT ![n] = [k \in AggKeys |-> None]]
    /\ gc_current_aggregate_id' = [gc_current_aggregate_id EXCEPT ![n] = [k \in AggKeys |-> None]]
    /\ gc_op' = NoGcOp
    /\ UNCHANGED <<gc_now, gc_disabled_rules, gc_silence_cache, gc_inflight>>
    /\ UNCHANGED notGc

\* load_rule_changes, the rule file of a disabled rule changed and enables it:
\* the name leaves disabled_rules, init_rule finds no loaded rule of the name
\* and gives the new instance blank maps.
GcRuleEnabled(n) ==
    /\ n \in gc_disabled_rules
    /\ ~gc_inflight[n]
    /\ gc_disabled_rules' = gc_disabled_rules \ {n}
    /\ gc_rules' = gc_rules \cup {n}
    /\ gc_processed_hits' = [gc_processed_hits EXCEPT ![n] = {}]
    /\ gc_aggregate_alert_time' = [gc_aggregate_alert_time EXCEPT ![n] = [k \in AggKeys |-> None]]
    /\ gc_current_aggregate_id' = [gc_current_aggregate_id EXCEPT ![n] = [k \in AggKeys |-> None]]
    /\ gc_op' = NoGcOp
    /\ UNCHANGED <<gc_now, gc_es_clients, gc_silence_cache, gc_inflight>>
    /\ UNCHANGED notGc

GcAdvance ==
    /\ gc_now < MaxGcNow
    /\ gc_now' = gc_now + 1
    /\ gc_op' = NoGcOp
    /\ UNCHANGED <<gc_rules, gc_disabled_rules, gc_es_clients, gc_silence_cache,
                   gc_processed_hits, gc_aggregate_alert_time, gc_current_aggregate_id,
                   gc_inflight>>
    /\ UNCHANGED notGc

GcNext ==
    \/ \E n \in GcRuleNames : GcTickStart(n)
    \/ \E n \in GcRuleNames, id \in {gc_now - 1, gc_now} : GcTickHit(n, id)
    \/ \E n \in GcRuleNames, k \in AggKeys : GcTickMatch(n, k)
    \/ \E n \in GcRuleNames : GcTickEnd(n)
    \/ MemoryCleanupJob
    \/ PendingAlertsCleanup
    \/ \E n \in GcRuleNames : GcRuleDeleted(n)
    \/ \E n \in GcRuleNames : GcRuleDisabled(n)
    \/ \E n \in GcRuleNames : GcRuleAdded(n)
    \/ \E n \in GcRuleNames : GcRuleEnabled(n)
    \/ GcAdvance

(***************************************************************************)
(* PART 7 - the scroll of a search-mode query: run_query with get_hits and  *)
(* cleanup_scroll_id, for a rule with max_query_size 1 (a page is one hit). *)
(* A scroll id is a number; the backend issues them in turn.                *)
(***************************************************************************)
\* The backend issues at most MaxScrollIds scroll ids.
MaxScrollIds == 3

\* A search finds at most MaxTotalHits hits.
MaxTotalHits == 3

max_query_size == 1

\* What the backend and the interpreter do during one run_query call:
\*   search_ok    the search request returns a response
\*   issue        the response carries a _scroll_id
\*   shard_fail   the response reports shard failures
\*   total        hits.total.value of the response
\*   fail_page    the scroll request that raises (1: the first; 0: none)
\*   overflow     the recursion depth that cannot be entered (0: none)
\*   limit        the scrolling_cycle from which should_scrolling_continue says no
QueryInputs ==
    [search_ok : BOOLEAN, issue : BOOLEAN, shard_fail : BOOLEAN, total : 0..MaxTotalHits,
     fail_page : 0..2, overflow : 0..2, limit : {2, MaxTotalHits + 1}]

NoQuery == [exit |-> "none", ok |-> TRUE, issued |-> None, pages |-> 0]

ScrollInit ==
    /\ sc_scroll_id = None
    /\ sc_next_id = 1
    /\ sc_cleared = {}
    /\ sc_last = NoQuery

\* cleanup_scroll_id: pop rule['scroll_id'] and ask the backend to clear it;
\* an error of clear_scroll is swallowed.
cleanup_scroll_id(st) ==
    IF st.scroll_id = None THEN st
    ELSE [st EXCEPT !.scroll_id = None, !.cleared = @ \cup {st.scroll_id}]

\* get_hits: a scroll request for rule['scroll_id'], or a search that stores
\* the _scroll_id of its response in the rule before the response is looked
\* at.  ok is FALSE where get_hits returns None.
get_hits(st, in, scroll) ==
    IF scroll
      THEN IF in.fail_page = st.scrolling_cycle - 1
             THEN [st |-> st, ok |-> FALSE]
             ELSE [st |-> [st EXCEPT !.num_hits = @ + max_query_size], ok |-> TRUE]
      ELSE IF ~in.search_ok
             THEN [st |-> st, ok |-> FALSE]
             ELSE LET got == IF in.issue
                               THEN [st EXCEPT !.scroll_id = st.next_id,
                                               !.issued = st.next_id,
                                               !.next_id = @ + 1]
                               ELSE st
                      res == [got EXCEPT !.total_hits = in.total]
                  IN  IF in.shard_fail
                        THEN [st |-> res, ok |-> FALSE]
                        ELSE [st |-> [res EXCEPT !.num_hits = @ + Min(in.total, max_query_size)],
                              ok |-> TRUE]

\* run_query for a search-mode rule.  depth is the depth of the recursion.
RECURSIVE run_query_scroll(_, _, _, _)
run_query_scroll(st0, in, scroll, depth) ==
    LET hits == get_hits([st0 EXCEPT !.scrolling_cycle = @ + 1], in, scroll)
        st == hits.st
    IN  IF ~hits.ok
          THEN [st |-> [st EXCEPT !.exit = IF scroll THEN "scroll failed" ELSE "search failed"],
                ok |-> FALSE]
          ELSE IF /\ st.scroll_id # None
                  /\ st.num_hits < st.total_hits
                  /\ st.scrolling_cycle < in.limit
                 THEN IF in.overflow = depth + 1
                        THEN \* RuntimeError: except, pass; finally
                             [st |-> cleanup_scroll_id([st EXCEPT !.exit = "overflow"]), ok |-> TRUE]
                        ELSE LET inner == run_query_scroll(st, in, TRUE, depth + 1)
                             IN  IF ~inner.ok
                                   THEN [st |-> cleanup_scroll_id(cleanup_scroll_id(inner.st)),
                                         ok |-> FALSE]
                                   ELSE [st |-> cleanup_scroll_id(inner.st), ok |-> TRUE]
                 ELSE [st |-> cleanup_scroll_id([st EXCEPT !.exit = "end"]), ok |-> TRUE]

\* run_rule calls run_query(rule, start, end) for a segment; num_hits is 0 and
\* scrolling_cycle is 0 at the first segment of a tick.
RunQuery(in) ==
    /\ sc_next_id <= MaxScrollIds
    /\ \E r \in {run_query_scroll([scroll_id |-> sc_scroll_id, next_id |-> sc_next_id,
                                   cleared |-> sc_cleared, issued |-> None, num_hits |-> 0,
                                   total_hits |-> 0, scrolling_cycle |-> 0, exit |-> "none"],
                                  in, FALSE, 0)} :
          /\ sc_scroll_id' = r.st.scroll_id
          /\ sc_next_id' = r.st.next_id
          /\ sc_cleared' = r.st.cleared
          /\ sc_last' = [exit |-> r.st.exit, ok |-> r.ok, issued |-> r.st.issued,
                         pages |-> r.st.scrolling_cycle]
    /\ UNCHANGED notScroll

\* The process starts again: the rule is loaded anew, without a scroll_id.
ScrollRestart ==
    /\ sc_last # NoQuery
    /\ sc_scroll_id' = None
    /\ sc_last' = NoQuery
    /\ UNCHANGED <<sc_next_id, sc_cleared>>
    /\ UNCHANGED notScroll

ScrollNext ==
    \/ \E in \in QueryInputs : RunQuery(in)
    \/ ScrollRestart

(***************************************************************************)
(* PART 8 - send_alert from the enhancements on: the loop over rule['alert'] *)
(* and the elastalert documents written for the matches.  A match is a      *)
(* number; the text of the exception an alerter raises names the alerter.   *)
(***************************************************************************)
\* rule['alert'] has NumAlerters alerters, called 1, 2, ...
NumAlerters == 3

\* A send_alert call gets at most MaxSendMatches matches.
MaxSendMatches == 2

\* What one alerter does with the matches: it sends them, it raises
\* EAException (how an alerter reports that it could not deliver), or it
\* raises some other exception.
AlerterOutcomes == {"sent", "EAException", "Exception"}

NoText == "none"

ExceptionText(i) == IF i = 1 THEN "error 1" ELSE IF i = 2 THEN "error 2" ELSE "error 3"

\* What happens during one send_alert call:
\*   matches    how many matches it is given
\*   ndrop      how many of them the enhancements drop (they run unless
\*              run_enhancements_first or retried)
\*   debug      self.debug
\*   outcomes   what each alerter does when it is called
\*   wb_fail    the writeback that raises ElasticsearchException (0: none)
SendInputs ==
    [matches : 0..MaxSendMatches, ndrop : 0..1, debug : BOOLEAN,
     outcomes : [1..NumAlerters -> AlerterOutcomes], wb_fail : 0..MaxSendMatches]

NoSend ==
    [ran |-> FALSE, raised |-> FALSE, calls |-> <<>>, docs |-> <<>>, matches |-> <<>>,
     outcomes |-> [i \in 1..NumAlerters |-> "sent"]]

SendInit == sa_last = NoSend

\* The loop "for alert in rule['alert']" with an except clause that ends the
\* loop at the first EAException too.
RECURSIVE RunAlertsUntilFailure(_, _, _)
RunAlertsUntilFailure(outcomes, i, st) ==
    IF i > NumAlerters THEN st
    ELSE LET called == [st EXCEPT !.calls = Append(@, i)]
         IN  IF outcomes[i] = "sent"
               THEN RunAlertsUntilFailure(outcomes, i + 1, [called EXCEPT !.alert_sent = TRUE])
             ELSE IF outcomes[i] = "EAException"
               THEN [called EXCEPT !.alert_exception = ExceptionText(i)]
             ELSE [called EXCEPT !.raised = TRUE]

\* The loop "for alert in rule['alert']": st is [calls, alert_sent,
\* alert_exception, raised]; the loop ends at the first exception that is not
\* an EAException.
RECURSIVE RunAlerts(_, _, _)
RunAlerts(outcomes, i, st) ==
    IF i > NumAlerters THEN st
    ELSE LET called == [st EXCEPT !.calls = Append(@, i)]
         IN  IF outcomes[i] = "sent"
               THEN RunAlerts(outcomes, i + 1, [called EXCEPT !.alert_sent = TRUE])
             ELSE IF outcomes[i] = "EAException"
               THEN RunAlerts(outcomes, i + 1, [called EXCEPT !.alert_exception = ExceptionText(i)])
             ELSE [called EXCEPT !.raised = TRUE]

\* get_alert_body: alert_exception is a field of the body of an alert that
\* was not sent.
get_alert_body(match, alert_sent, alert_exception) ==
    [match |-> match, alert_sent |-> alert_sent,
     alert_exception |-> IF ~alert_sent THEN alert_exception ELSE NoText,
     aggregate_id |-> None]

\* "Write the alert(s) to ES": one document for each match, in order; the
\* first document that is indexed gives the later ones their aggregate_id
\* (a document's _id is the number of its match here).
RECURSIVE WriteAlerts(_, _, _, _, _, _)
WriteAlerts(matches, i, alert_sent, alert_exception, wb_fail, st) ==
    IF i > Len(matches) THEN st.docs
    ELSE LET alert_body == get_alert_body(matches[i], alert_sent, alert_exception)
             body == IF st.agg_id # None
                       THEN [alert_body EXCEPT !.aggregate_id = st.agg_id]
                       ELSE alert_body
         IN  IF wb_fail = i
               THEN WriteAlerts(matches, i + 1, alert_sent, alert_exception, wb_fail, st)
               ELSE WriteAlerts(matches, i + 1, alert_sent, alert_exception, wb_fail,
                                [docs |-> Append(st.docs, body),
                                 agg_id |-> IF st.agg_id = None THEN matches[i] ELSE st.agg_id])

\* send_alert from "if not matches" on.  The result: ran (the loop over the
\* alerters was entered), raised (an exception left send_alert), the alerters
\* called in order, the documents written, the matches the alerters were given.
send_alert_dispatch(in) ==
    LET given == [i \in 1..in.matches |-> i]
        matches == SubSeq(given, 1, in.matches - in.ndrop)
        alerts == RunAlerts(in.outcomes, 1,
                            [calls |-> <<>>, alert_sent |-> FALSE, alert_exception |-> NoText,
                             raised |-> FALSE])
    IN  IF given = <<>> \/ matches = <<>> \/ in.debug
          THEN [NoSend EXCEPT !.outcomes = in.outcomes]
          ELSE [ran |-> TRUE,
                raised |-> alerts.raised,
                calls |-> alerts.calls,
                docs |-> IF alerts.raised THEN <<>>
                         ELSE WriteAlerts(matches, 1, alerts.alert_sent, alerts.alert_exception,
                                          in.wb_fail, [docs |-> <<>>, agg_id |-> None]),
                matches |-> matches,
                outcomes |-> in.outcomes]

\* alert(matches, rule): send_alert in an exception handler.
SendAlert(in) ==
    /\ in.ndrop <= in.matches
    /\ sa_last' = send_alert_dispatch(in)
    /\ UNCHANGED notSend

SendNext == \E in \in SendInputs : SendAlert(in)

(***************************************************************************)
(* PART 9 - the retry of a failed alert of a rule without aggregation: the  *)
(* tick whose alerters all fail writes the match as an unsent document, and *)
(* every pending-alert sweep finds the unsent documents, alerts them again  *)
(* and deletes them; an alert that fails again is written as a new          *)
(* document by send_alert.  The rule has one match.                         *)
(***************************************************************************)
\* rt_now runs from 0 to MaxRetryNow.
MaxRetryNow == 2

\* The writeback index gives out at most MaxRetryDocs document ids.
MaxRetryDocs == 3

NoSweep == [swept |-> FALSE, due |-> FALSE, dispatched |-> 0, sent_before |-> FALSE]

RetryInit ==
    /\ rt_now = 0
    /\ rt_loaded = TRUE
    /\ rt_store = {}
    /\ rt_next_id = 1
    /\ rt_alert_time = None
    /\ rt_sends = 0
    /\ rt_last = NoSweep

\* run_rule, a match of the rule: alert() with every alerter raising
\* EAException; send_alert writes the match with alert_sent = false and
\* alert_time = now (wb: the writeback succeeds).
RetryAlertFails(wb) ==
    /\ rt_loaded
    /\ rt_alert_time = None
    /\ rt_alert_time' = rt_now
    /\ IF wb
         THEN /\ rt_store' = rt_store \cup {[id |-> rt_next_id, alert_time |-> rt_now]}
              /\ rt_next_id' = rt_next_id + 1
         ELSE UNCHANGED <<rt_store, rt_next_id>>
    /\ rt_last' = NoSweep
    /\ UNCHANGED <<rt_now, rt_loaded, rt_sends>>
    /\ UNCHANGED notRetry

\* What goes wrong in one sweep: nothing (an alerter sends), the search for
\* the pending documents, every alerter (EAException; send_alert's writeback
\* working or not), an alerter raising another exception, the delete after a
\* send, the delete after a failed send.
RetryFaults == {"none", "find", "alert", "alert_writeback", "raise", "delete", "alert_delete"}

\* The body of "for alert in pending_alerts" for one pending document.
RetryDispatch(sw, alert, now, fault) ==
    IF ~sw.loaded \/ ~(now > alert.alert_time) THEN sw
    ELSE LET sent == fault \in {"none", "delete"}
             written == fault \in {"alert", "alert_delete"} /\ sw.next_id <= MaxRetryDocs
             alerted ==
                 [sw EXCEPT
                     !.sends = IF sent THEN Min(@ + 1, 2) ELSE @,
                     !.store = IF written
                                 THEN @ \cup {[id |-> sw.next_id, alert_time |-> alert.alert_time]}
                                 ELSE @,
                     !.next_id = IF written THEN @ + 1 ELSE @,
                     !.dispatched = @ + 1]
         IN  IF fault \in {"delete", "alert_delete"}
               THEN alerted
               ELSE [alerted EXCEPT !.store = {d \in @ : d.id # alert.id}]

RECURSIVE RetryLoop(_, _, _, _)
RetryLoop(sw, pending_alerts, now, fault) ==
    IF pending_alerts = <<>> THEN sw
    ELSE RetryLoop(RetryDispatch(sw, Head(pending_alerts), now, fault),
                   Tail(pending_alerts), now, fault)

\* find_recent_pending_alerts on the unsent documents (none has an
\* aggregate_id): those with alert_time in [now - alert_time_limit, now],
\* earliest first, then by _id.
RECURSIVE RetryPending(_)
RetryPending(docs) ==
    IF docs = {} THEN <<>>
    ELSE LET first == CHOOSE d \in docs :
                          \A e \in docs : d.alert_time < e.alert_time
                                          \/ (d.alert_time = e.alert_time /\ d.id <= e.id)
         IN  <<first>> \o RetryPending(docs \ {first})

\* The pending-alert sweep job for the documents of the rule.
RetrySweep(fault) ==
    /\ fault \in {"alert", "alert_delete"} => rt_next_id <= MaxRetryDocs
    /\ LET found == IF fault = "find" THEN {}
                    ELSE {d \in rt_store : /\ d.alert_time >= rt_now - alert_time_limit
                                           /\ d.alert_time <= rt_now}
       IN  \E sw \in {RetryLoop([loaded |-> rt_loaded, store |-> rt_store, next_id |-> rt_next_id,
                                 sends |-> rt_sends, dispatched |-> 0],
                                RetryPending(found), rt_now, fault)} :
               /\ rt_store' = sw.store
               /\ rt_next_id' = sw.next_id
               /\ rt_sends' = sw.sends
               /\ rt_last' = [swept |-> TRUE,
                              due |-> /\ rt_loaded
                                      /\ rt_alert_time # None
                                      /\ rt_store # {}
                                      /\ rt_sends = 0
                                      /\ rt_now > rt_alert_time
                                      /\ rt_alert_time >= rt_now - alert_time_limit,
                              dispatched |-> sw.dispatched,
                              sent_before |-> rt_sends > 0]
    /\ UNCHANGED <<rt_now, rt_loaded, rt_alert_time>>
    /\ UNCHANGED notRetry

\* load_rule_changes: the rule file is deleted, or it is there again.
RetryRuleRemoved ==
    /\ rt_loaded
    /\ rt_loaded' = FALSE
    /\ rt_last' = NoSweep
    /\ UNCHANGED <<rt_now, rt_store, rt_next_id, rt_alert_time, rt_sends>>
    /\ UNCHANGED notRetry

RetryRuleLoaded ==
    /\ ~rt_loaded
    /\ rt_loaded' = TRUE
    /\ rt_last' = NoSweep
    /\ UNCHANGED <<rt_now, rt_store, rt_next_id, rt_alert_time, rt_sends>>
    /\ UNCHANGED notRetry

RetryAdvance ==
    /\ rt_now < MaxRetryNow
    /\ rt_now' = rt_now + 1
    /\ rt_last' = NoSweep
    /\ UNCHANGED <<rt_loaded, rt_store, rt_next_id, rt_alert_time, rt_sends>>
    /\ UNCHANGED notRetry

RetryNext ==
    \/ \E wb \in BOOLEAN : RetryAlertFails(wb)
    \/ \E fault \in RetryFaults : RetrySweep(fault)
    \/ RetryRuleRemoved
    \/ RetryRuleLoaded
    \/ RetryAdvance

(***************************************************************************)
(* PART 10 - the state a rule keeps over a reload: init_rule's              *)
(* copy_properties and load_rule_changes for a changed rule file, for one   *)
(* rule name.  The rule has one aggregation key, so current_aggregate_id    *)
(* and aggregate_alert_time are one value each (None: no entry); a key      *)
(* that is missing in the rule is the blank value here.                     *)
(***************************************************************************)
\* The ticks of the rule end at the times 1..MaxReloadTime.
MaxReloadTime == 2

\* No instance of the name (in self.rules, or in self.disabled_rules).
NoRule ==
    [present |-> FALSE, agg_matches |-> <<>>, current_aggregate_id |-> None,
     aggregate_alert_time |-> None, processed_hits |-> {}, starttime |-> None,
     minimum_starttime |-> None, previous_endtime |-> None, has_run_once |-> FALSE]

\* The rule load_configuration returns for the rule file: configuration only.
LoadedConfiguration == [NoRule EXCEPT !.present = TRUE]

\* init_rule's blank_rule: empty agg_matches, aggregate_alert_time,
\* current_aggregate_id and processed_hits, has_run_once False; no starttime.
blank_rule == LoadedConfiguration

NoReload == [op |-> "none", prior |-> NoRule, in_rules |-> FALSE]

ReloadInit ==
    /\ rl_rule = blank_rule
    /\ rl_disabled = NoRule
    /\ rl_last = NoReload

\* init_rule, "for prop in copy_properties": without processed_hits in the list.
copy_properties_without_hits(new_rule, rule) ==
    [new_rule EXCEPT !.agg_matches = rule.agg_matches,
                     !.current_aggregate_id = rule.current_aggregate_id,
                     !.aggregate_alert_time = rule.aggregate_alert_time,
                     !.starttime = rule.starttime,
                     !.minimum_starttime = rule.minimum_starttime,
                     !.has_run_once = rule.has_run_once]

\* init_rule, "for prop in copy_properties": the seven properties of rule go
\* to new_rule; previous_endtime is not one of them.
copy_properties(new_rule, rule) ==
    [new_rule EXCEPT !.agg_matches = rule.agg_matches,
                     !.current_aggregate_id = rule.current_aggregate_id,
                     !.aggregate_alert_time = rule.aggregate_alert_time,
                     !.processed_hits = rule.processed_hits,
                     !.starttime = rule.starttime,
                     !.minimum_starttime = rule.minimum_starttime,
                     !.has_run_once = rule.has_run_once]

\* init_rule(new_rule, new): the rule the properties are copied from is the
\* rule of that name in self.rules when new is False and there is one, and
\* blank_rule otherwise.
init_rule_state(new_rule, new, in_rules) ==
    copy_properties(new_rule, IF ~new /\ in_rules.present THEN in_rules ELSE blank_rule)

\* A tick of the loaded rule that ends at t: has_run_once, the cursor.
ReloadTick(t) ==
    /\ rl_rule.present
    /\ rl_rule.previous_endtime = None \/ rl_rule.previous_endtime < t
    /\ rl_rule' = [rl_rule EXCEPT !.has_run_once = TRUE,
                                  !.starttime = t,
                                  !.minimum_starttime = IF @ = None THEN t ELSE @,
                                  !.previous_endtime = t]
    /\ rl_last' = NoReload
    /\ UNCHANGED rl_disabled
    /\ UNCHANGED notReload

\* A tick remembers a hit (remove_duplicate_events).
ReloadHit(id) ==
    /\ rl_rule.present
    /\ rl_rule.has_run_once
    /\ id \notin rl_rule.processed_hits
    /\ rl_rule' = [rl_rule EXCEPT !.processed_hits = @ \cup {id}]
    /\ rl_last' = NoReload
    /\ UNCHANGED rl_disabled
    /\ UNCHANGED notReload

\* A tick aggregates a match (add_aggregated_alert): it opens a group (wb), or
\* the writeback fails and the match is kept in agg_matches.
ReloadAggregate(wb) ==
    /\ rl_rule.present
    /\ rl_rule.has_run_once
    /\ IF wb
         THEN /\ rl_rule.current_aggregate_id = None
              /\ rl_rule' = [rl_rule EXCEPT !.current_aggregate_id = 1,
                                            !.aggregate_alert_time = rl_rule.starttime + 1]
         ELSE /\ rl_rule.agg_matches = <<>>
              /\ rl_rule' = [rl_rule EXCEPT !.agg_matches = <<1>>,
                                            !.aggregate_alert_time = rl_rule.starttime + 1]
    /\ rl_last' = NoReload
    /\ UNCHANGED rl_disabled
    /\ UNCHANGED notReload

\* handle_uncaught_exception with disable_rules_on_error: the rule leaves
\* self.rules and is appended to disabled_rules as it is, and
\* cleanup_rule_memory then drops its old hits (kept stay) and, when expired,
\* its aggregate_alert_time and current_aggregate_id.
ReloadTickRaises(kept, expired) ==
    /\ rl_rule.present
    /\ rl_rule.has_run_once
    /\ kept \subseteq rl_rule.processed_hits
    /\ expired => rl_rule.aggregate_alert_time # None
    /\ rl_disabled' =
           [rl_rule EXCEPT !.processed_hits = kept,
                           !.aggregate_alert_time = IF expired THEN None ELSE @,
                           !.current_aggregate_id = IF expired THEN None ELSE @]
    /\ rl_rule' = NoRule
    /\ rl_last' = NoReload
    /\ UNCHANGED notReload

\* load_rule_changes, the rule file changed and loads as enabled: the name
\* leaves disabled_rules, init_rule(new_rule, False), and self.rules holds
\* the new rule in place of the one of that rule file.
ReloadEnabled ==
    /\ rl_rule.present \/ rl_disabled.present
    /\ rl_rule' = init_rule_state(LoadedConfiguration, FALSE, rl_rule)
    /\ rl_disabled' = NoRule
    /\ rl_last' = [op |-> "reload",
                   prior |-> IF rl_rule.present THEN rl_rule ELSE rl_disabled,
                   in_rules |-> rl_rule.present]
    /\ UNCHANGED notReload

\* load_rule_changes, the rule file changed and says is_enabled: false: the
\* rule leaves self.rules and the new configuration is appended to
\* disabled_rules unless the name is there.
ReloadAsDisabled ==
    /\ rl_rule.present
    /\ rl_rule' = NoRule
    /\ rl_disabled' = IF rl_disabled.present THEN rl_disabled ELSE LoadedConfiguration
    /\ rl_last' = NoReload
    /\ UNCHANGED notReload

\* load_rule_changes, the rule file was deleted.
ReloadFileDeleted ==
    /\ rl_rule.present
    /\ rl_rule' = NoRule
    /\ rl_last' = NoReload
    /\ UNCHANGED rl_disabled
    /\ UNCHANGED notReload

\* load_rule_changes, a new rule file of the name: init_rule(new_rule).
ReloadFileAdded ==
    /\ ~rl_rule.present
    /\ ~rl_disabled.present
    /\ rl_rule' = init_rule_state(LoadedConfiguration, TRUE, rl_rule)
    /\ rl_last' = NoReload
    /\ UNCHANGED rl_disabled
    /\ UNCHANGED notReload

ReloadNext ==
    \/ \E t \in 1..MaxReloadTime : ReloadTick(t)
    \/ \E id \in 1..MaxReloadTime : ReloadHit(id)
    \/ \E wb \in BOOLEAN : ReloadAggregate(wb)
    \/ \E kept \in SUBSET (1..MaxReloadTime), expired \in BOOLEAN :
          ReloadTickRaises(kept, expired)
    \/ ReloadEnabled
    \/ ReloadAsDisabled
    \/ ReloadFileDeleted
    \/ ReloadFileAdded

(***************************************************************************)
(* PART 11 - the match enhancements: the loops of send_alert (rules         *)
(* without run_enhancements_first, alerts that are not retried) and of      *)
(* run_rule (run_enhancements_first).  A match is a number; the rule has    *)
(* two enhancements.                                                        *)
(***************************************************************************)
\* A batch has at most MaxEnhMatches matches.
MaxEnhMatches == 2

\* rule['match_enhancements'].
match_enhancements == {1, 2}

\* What enhancement.process(match) does: it returns, it raises
\* DropMatchException, or it raises EAException.
ProcessOutcomes == {"ok", "DropMatchException", "EAException"}

\* The inputs of one batch: whether the rule has run_enhancements_first, the
\* number of matches, and what each enhancement does with each match.
EnhInputs ==
    UNION {[run_enhancements_first : BOOLEAN, matches : {n},
            process : [match_enhancements -> [1..n -> ProcessOutcomes]]] :
           n \in 1..MaxEnhMatches}

NoBatch == [done |-> FALSE, delivered |-> <<>>, errors |-> {}]

EnhIdle ==
    /\ en_in = [run_enhancements_first |-> FALSE, matches |-> 1,
                process |-> [e \in match_enhancements |-> [m \in 1..1 |-> "ok"]]]
    /\ en_last = NoBatch

EnhInit ==
    /\ en_in \in EnhInputs
    /\ en_last = NoBatch

\* send_alert, "for match in matches" for enhancement e: st is [valid, errors].
\* A match whose process returns is appended to valid_matches; one that
\* raises DropMatchException is passed over; for one that raises EAException
\* handle_error is called, and it is not appended.
RECURSIVE enhance_matches(_, _, _, _, _)
enhance_matches(process, e, matches, i, st) ==
    IF i > Len(matches) THEN st
    ELSE LET match == matches[i]
         IN  IF process[e][match] = "ok"
               THEN enhance_matches(process, e, matches, i + 1,
                                    [st EXCEPT !.valid = Append(@, match)])
             ELSE IF process[e][match] = "DropMatchException"
               THEN enhance_matches(process, e, matches, i + 1, st)
             ELSE enhance_matches(process, e, matches, i + 1,
                                  [st EXCEPT !.errors = @ \cup {<<e, match>>}])

\* send_alert, "for enhancement in rule['match_enhancements']": matches is
\* valid_matches after each enhancement, and send_alert returns when no match
\* is left.  The result: the matches that go on to the alerters, the errors
\* handle_error was called for.
RECURSIVE send_alert_enhancements(_, _, _, _)
send_alert_enhancements(process, e, matches, errors) ==
    IF e \notin match_enhancements THEN [delivered |-> matches, errors |-> errors]
    ELSE LET st == enhance_matches(process, e, matches, 1, [valid |-> <<>>, errors |-> errors])
         IN  IF st.valid = <<>>
               THEN [delivered |-> <<>>, errors |-> st.errors]
               ELSE send_alert_enhancements(process, e + 1, st.valid, st.errors)

\* run_rule with run_enhancements_first, "for enhancement in
\* rule['match_enhancements']" for one match: an EAException is handed to
\* handle_error and the loop goes on; a DropMatchException ends it and the
\* match is skipped.  st is [dropped, errors].
RECURSIVE enhancements_first(_, _, _, _)
enhancements_first(process, e, match, st) ==
    IF e \notin match_enhancements THEN st
    ELSE IF process[e][match] = "DropMatchException" THEN [st EXCEPT !.dropped = TRUE]
    ELSE IF process[e][match] = "EAException"
      THEN enhancements_first(process, e + 1, match,
                              [st EXCEPT !.errors = @ \cup {<<e, match>>}])
    ELSE enhancements_first(process, e + 1, match, st)

\* run_rule, "while rule['type'].matches" for the matches i.. of the batch:
\* each match goes through the enhancements and then on to alert or
\* add_aggregated_alert unless it was dropped.
RECURSIVE run_rule_enhancements(_, _, _, _)
run_rule_enhancements(process, i, n, st) ==
    IF i > n THEN st
    ELSE LET r == enhancements_first(process, 1, i, [dropped |-> FALSE, errors |-> st.errors])
         IN  run_rule_enhancements(process, i + 1, n,
                 [delivered |-> IF r.dropped THEN st.delivered ELSE Append(st.delivered, i),
                  errors |-> r.errors])

\* The batch of en_in goes through the enhancements, in run_rule or in
\* send_alert as the rule says.
EnhanceBatch ==
    /\ ~en_last.done
    /\ \E r \in {IF en_in.run_enhancements_first
                   THEN run_rule_enhancements(en_in.process, 1, en_in.matches,
                                              [delivered |-> <<>>, errors |-> {}])
                   ELSE send_alert_enhancements(en_in.process, 1,
                                                [m \in 1..en_in.matches |-> m], {})} :
           en_last' = [done |-> TRUE, delivered |-> r.delivered, errors |-> r.errors]
    /\ UNCHANGED en_in
    /\ UNCHANGED notEnh

EnhNext == EnhanceBatch

(***************************************************************************)
(* PART 12 - debug mode (--debug): the operations of the engine that reach  *)
(* the alerters or the writeback index, for one loaded rule, with           *)
(* self.debug set or not.  The index may hold documents of an earlier run.  *)
(***************************************************************************)
\* The clock of this part stops here.
MaxDebugNow == 2

\* The writeback index gets at most this many documents.
MaxDebugDocs == 4

\* The calls of the alerters are counted up to here.
MaxDebugCalls == 2

\* What an earlier run without --debug left in the index: nothing, a pending
\* alert, or a pending alert with a match aggregated under it.
EarlierDocs ==
    {{},
     {[id |-> 1, doc_type |-> "elastalert", alert_sent |-> FALSE, alert_time |-> 0,
       aggregate_id |-> None]},
     {[id |-> 1, doc_type |-> "elastalert", alert_sent |-> FALSE, alert_time |-> 0,
       aggregate_id |-> None],
      [id |-> 2, doc_type |-> "elastalert", alert_sent |-> FALSE, alert_time |-> 0,
       aggregate_id |-> 1]}}

NoDebugOp == [op |-> "none", written |-> {}, deleted |-> {}]

DebugIdle ==
    /\ db_debug = FALSE
    /\ db_now = 0
    /\ db_store = {}
    /\ db_next_id = 1
    /\ db_agg_matches = 0
    /\ db_aggregate_alert_time = None
    /\ db_calls = [alerters |-> 0, debug_alerter |-> 0]
    /\ db_last = NoDebugOp

DebugInit ==
    /\ db_debug \in BOOLEAN
    /\ db_now = 0
    /\ db_store \in EarlierDocs
    /\ db_next_id = Cardinality(db_store) + 1
    /\ db_agg_matches = 0
    /\ db_aggregate_alert_time = None
    /\ db_calls = [alerters |-> 0, debug_alerter |-> 0]
    /\ db_last = NoDebugOp

\* writeback(doc_type, body) on st = [store, next_id, ...]: in debug mode it
\* returns None before it reaches the index; res tells whether a document
\* was created.
debug_writeback(st, debug, doc_type, alert_sent, alert_time, wb_ok) ==
    IF debug \/ ~wb_ok THEN [st EXCEPT !.res = FALSE]
    ELSE [st EXCEPT !.store = @ \cup {[id |-> st.next_id, doc_type |-> doc_type,
                                       alert_sent |-> alert_sent, alert_time |-> alert_time,
                                       aggregate_id |-> None]},
                    !.next_id = @ + 1,
                    !.res = TRUE]

\* send_alert from "Don't send real alerts in debug mode" on: the
\* DebugAlerter and return, or the rule's alerters and the elastalert
\* document of the alert.
debug_send_alert(st, debug, alert_time, alert_ok, wb_ok) ==
    IF debug
      THEN [st EXCEPT !.calls.debug_alerter = Min(@ + 1, MaxDebugCalls)]
      ELSE debug_writeback([st EXCEPT !.calls.alerters = Min(@ + 1, MaxDebugCalls)],
                           debug, "elastalert", alert_ok, alert_time, wb_ok)

\* add_aggregated_alert for a rule with no open group in the index: the
\* group's alert_time is set, and the match stays in agg_matches when
\* writeback returns nothing.
debug_add_aggregated_alert(st, debug, now, wb_ok) ==
    LET w == debug_writeback(st, debug, "elastalert", FALSE, now + aggregation, wb_ok)
    IN  [w EXCEPT !.aat = now + aggregation,
                  !.mem = IF w.res THEN @ ELSE @ + 1]

\* The pending documents find_recent_pending_alerts returns.
DebugPending(store, now) ==
    {d \in store : /\ d.doc_type = "elastalert"
                   /\ ~d.alert_sent
                   /\ d.aggregate_id = None
                   /\ d.alert_time >= now - alert_time_limit
                   /\ d.alert_time <= now}

\* send_pending_alerts, its first loop: each pending document that is due is
\* alerted with the documents get_aggregated_matches takes out of the index,
\* and is then deleted from the index.
RECURSIVE DebugPendingLoop(_, _, _, _, _, _)
DebugPendingLoop(st, pending, debug, now, alert_ok, wb_ok) ==
    IF pending = {} THEN st
    ELSE LET alert == CHOOSE d \in pending : \A e \in pending : d.id <= e.id
             aggregated == {c \in st.store : c.aggregate_id = alert.id}
             taken == [st EXCEPT !.store = @ \ aggregated]
             sent == debug_send_alert(taken, debug, alert.alert_time, alert_ok, wb_ok)
         IN  IF now > alert.alert_time
               THEN DebugPendingLoop([sent EXCEPT !.store = @ \ {alert}], pending \ {alert},
                                     debug, now, alert_ok, wb_ok)
               ELSE DebugPendingLoop(st, pending \ {alert}, debug, now, alert_ok, wb_ok)

DebugState ==
    [store |-> db_store, next_id |-> db_next_id, mem |-> db_agg_matches,
     aat |-> db_aggregate_alert_time, calls |-> db_calls, res |-> FALSE]

SetDebugState(op, st) ==
    /\ db_store' = st.store
    /\ db_next_id' = st.next_id
    /\ db_agg_matches' = st.mem
    /\ db_aggregate_alert_time' = st.aat
    /\ db_calls' = st.calls
    /\ db_last' = [op |-> op, written |-> {d.id : d \in st.store \ db_store},
                   deleted |-> {d.id : d \in db_store \ st.store}]

\* What the rule type does in a tick: no match, a match that is alerted at
\* once, or a match that is aggregated.
TickKinds == {"none", "alert", "aggregate"}

\* A tick of the rule (run_rule): the matches of agg_matches go through
\* add_aggregated_alert again; for a match set_realert writes a silence
\* document and the match is alerted or aggregated; then the
\* elastalert_status document is written.
DebugTick(kind, alert_ok, wb_ok) ==
    /\ db_debug \/ db_next_id + 2 <= MaxDebugDocs
    /\ db_agg_matches < MaxDebugCalls
    /\ LET drained == IF db_agg_matches > 0
                        THEN debug_add_aggregated_alert([DebugState EXCEPT !.mem = @ - 1],
                                                        db_debug, db_now, wb_ok)
                        ELSE DebugState
           silenced == IF kind = "none" THEN drained
                       ELSE debug_writeback(drained, db_debug, "silence", FALSE, db_now, wb_ok)
           matched == IF kind = "alert"
                        THEN debug_send_alert(silenced, db_debug, db_now, alert_ok, wb_ok)
                      ELSE IF kind = "aggregate"
                        THEN debug_add_aggregated_alert(silenced, db_debug, db_now, wb_ok)
                      ELSE silenced
       IN  \E st \in {debug_writeback(matched, db_debug, "elastalert_status", FALSE, db_now,
                                      wb_ok)} :
               SetDebugState("tick", st)
    /\ UNCHANGED <<db_debug, db_now>>
    /\ UNCHANGED notDebug

\* The pending-alert sweep (send_pending_alerts): the pending documents of
\* the index, then the matches kept in memory when their group is due.
DebugSweep(alert_ok, wb_ok) ==
    /\ db_debug \/ db_next_id + 1 <= MaxDebugDocs
    /\ LET swept == DebugPendingLoop(DebugState, DebugPending(db_store, db_now), db_debug,
                                     db_now, alert_ok, wb_ok)
       IN  \E st \in {IF /\ swept.mem > 0
                         /\ swept.aat # None
                         /\ db_now > swept.aat
                        THEN [debug_send_alert(swept, db_debug, db_now, alert_ok, wb_ok)
                                  EXCEPT !.mem = 0]
                        ELSE swept} :
               SetDebugState("sweep", st)
    /\ UNCHANGED <<db_debug, db_now>>
    /\ UNCHANGED notDebug

DebugAdvance ==
    /\ db_now < MaxDebugNow
    /\ db_now' = db_now + 1
    /\ db_last' = NoDebugOp
    /\ UNCHANGED <<db_debug, db_store, db_next_id, db_agg_matches, db_aggregate_alert_time,
                   db_calls>>
    /\ UNCHANGED notDebug

DebugNext ==
    \/ \E kind \in TickKinds, alert_ok, wb_ok \in BOOLEAN : DebugTick(kind, alert_ok, wb_ok)
    \/ \E alert_ok, wb_ok \in BOOLEAN : DebugSweep(alert_ok, wb_ok)
    \/ DebugAdvance

(***************************************************************************)
(* PART 13 - the life of one match of a rule, from the tick that finds it   *)
(* to its delivery: the enhancements run in run_rule or in send_alert, the  *)
(* aggregation queue, the unsent document a failed delivery leaves, and the *)
(* dispatches of the pending-alert sweep.  The rule's aggregation is one    *)
(* time unit; every enhancement processes the match without an exception.   *)
(***************************************************************************)
\* The clock of this part stops here.
MaxLifeNow == 3

\* The match is passed to the alerters at most this often.
MaxLifeAttempts == 3

\* The rule configurations: with or without aggregation, and with or
\* without run_enhancements_first.
LifeRules == [aggregation : BOOLEAN, run_enhancements_first : BOOLEAN]

\* The match before the tick that finds it.  where: "none", in a pending
\* document of the writeback index ("doc"), in rule['agg_matches'] ("held"),
\* "sent", or "lost" (the delivery and the writeback both failed).
\* alert_time: that of the document, or rule['aggregate_alert_time'] of a
\* held match.  enhanced: how often the enhancements processed the match;
\* attempts: how often it was passed to the alerters.
NoMatch == [where |-> "none", alert_time |-> None, enhanced |-> 0, attempts |-> 0]

NoLifeOp == [op |-> "none", retried |-> FALSE, again |-> FALSE]

LifeIdle ==
    /\ lf_rule = [aggregation |-> FALSE, run_enhancements_first |-> FALSE]
    /\ lf_now = 0
    /\ lf_match = NoMatch
    /\ lf_last = NoLifeOp

LifeInit ==
    /\ lf_rule \in LifeRules
    /\ lf_now = 0
    /\ lf_match = NoMatch
    /\ lf_last = NoLifeOp

\* send_alert for the match: the enhancements unless run_enhancements_first
\* or retried, the alerters (alert_ok: one of them sends), and the writeback
\* of the match, which leaves an unsent document when no alerter sent.
life_send_alert(rule, m, retried, alert_time, alert_ok, wb_ok) ==
    LET enhanced == IF ~rule.run_enhancements_first /\ ~retried
                      THEN m.enhanced + 1 ELSE m.enhanced
    IN  IF alert_ok
          THEN [where |-> "sent", alert_time |-> None, enhanced |-> enhanced,
                attempts |-> m.attempts + 1]
        ELSE IF wb_ok
          THEN [where |-> "doc", alert_time |-> alert_time, enhanced |-> enhanced,
                attempts |-> m.attempts + 1]
        ELSE [where |-> "lost", alert_time |-> None, enhanced |-> enhanced,
              attempts |-> m.attempts + 1]

\* add_aggregated_alert for the match, the first of its aggregate: it is
\* written as a pending document due at now + aggregation, or held in
\* agg_matches when the writeback fails.
life_add_aggregated_alert(m, now, wb_ok) ==
    [m EXCEPT !.where = IF wb_ok THEN "doc" ELSE "held", !.alert_time = now + 1]

\* run_rule: the tick hands a held match to add_aggregated_alert again;
\* the tick that finds the match runs the enhancements on it when
\* run_enhancements_first is set, then aggregates it or alerts.
LifeTick(alert_ok, wb_ok) ==
    /\ lf_match.where \in {"none", "held"}
    /\ lf_match' =
           IF lf_match.where = "held"
             THEN life_add_aggregated_alert(lf_match, lf_now, wb_ok)
           ELSE LET m == IF lf_rule.run_enhancements_first
                           THEN [lf_match EXCEPT !.enhanced = @ + 1] ELSE lf_match
                IN  IF lf_rule.aggregation
                      THEN life_add_aggregated_alert(m, lf_now, wb_ok)
                      ELSE life_send_alert(lf_rule, m, FALSE, lf_now, alert_ok, wb_ok)
    /\ lf_last' = [op |-> "tick", retried |-> FALSE, again |-> FALSE]
    /\ UNCHANGED <<lf_rule, lf_now>>
    /\ UNCHANGED notLife

\* send_pending_alerts: the pending document of the match, when it is due
\* and not older than alert_time_limit, is alerted with retried set for a
\* rule without aggregation, and deleted; a held match whose
\* aggregate_alert_time has passed is alerted and taken from agg_matches.
LifeSweep(alert_ok, wb_ok) ==
    /\ lf_match.attempts < MaxLifeAttempts
    /\ \/ /\ lf_match.where = "doc"
          /\ lf_match.alert_time >= lf_now - alert_time_limit
          /\ lf_now > lf_match.alert_time
          /\ LET retried == ~lf_rule.aggregation
             IN  /\ lf_match' = life_send_alert(lf_rule, lf_match, retried,
                                                lf_match.alert_time, alert_ok, wb_ok)
                 /\ lf_last' = [op |-> "sweep", retried |-> retried,
                                again |-> lf_match.attempts > 0]
       \/ /\ lf_match.where = "held"
          /\ lf_now > lf_match.alert_time
          /\ lf_match' = life_send_alert(lf_rule, lf_match, FALSE, lf_now, alert_ok, wb_ok)
          /\ lf_last' = [op |-> "sweep", retried |-> FALSE, again |-> lf_match.attempts > 0]
    /\ UNCHANGED <<lf_rule, lf_now>>
    /\ UNCHANGED notLife

LifeAdvance ==
    /\ lf_now < MaxLifeNow
    /\ lf_now' = lf_now + 1
    /\ lf_last' = NoLifeOp
    /\ UNCHANGED <<lf_rule, lf_match>>
    /\ UNCHANGED notLife

LifeNext ==
    \/ \E alert_ok, wb_ok \in BOOLEAN : LifeTick(alert_ok, wb_ok)
    \/ \E alert_ok, wb_ok \in BOOLEAN : LifeSweep(alert_ok, wb_ok)
    \/ LifeAdvance

(***************************************************************************)
(* PART 14 - the window of a tick of an aggregation rule with               *)
(* bucket_interval: set_starttime picks the starttime,                      *)
(* adjust_start_time_for_interval_sync aligns it with the buckets, and      *)
(* run_rule queries from rule['starttime'] to its own endtime.  Times are   *)
(* unix seconds.                                                            *)
(***************************************************************************)
\* The starttime set_starttime picked lies in 0..MaxSyncStart.
MaxSyncStart == 7

\* The window picked is at most this long.
MaxSyncLength == 3

\* rule['bucket_interval_timedelta'] in seconds, for the rules explored.
BucketIntervals == {2, 3, 4}

SyncInputs ==
    [starttime : 0..MaxSyncStart, length : 1..MaxSyncLength,
     bucket_interval : BucketIntervals, sync_bucket_interval : BOOLEAN]

NoWindow == [done |-> FALSE, starttime |-> None, endtime |-> None, bucket_offset_delta |-> None]

SyncIdle ==
    /\ sy_in = [starttime |-> 0, length |-> 1, bucket_interval |-> 2,
                sync_bucket_interval |-> FALSE]
    /\ sy_window = NoWindow

SyncInit ==
    /\ sy_in \in SyncInputs
    /\ sy_window = NoWindow

\* adjust_start_time_for_interval_sync(rule, endtime) for a rule with
\* aggregation_query_element and bucket_interval whose rule['starttime'] is
\* starttime: rule['starttime'] and rule['bucket_offset_delta'] as it leaves
\* them (None: not set), and the endtime of its caller, which the assignment
\* to the function's own name endtime does not change.
adjust_start_time_for_interval_sync(rule, starttime, endtime) ==
    LET offset == starttime % rule.bucket_interval
    IN  IF rule.sync_bucket_interval
          THEN [starttime |-> starttime - offset, endtime |-> endtime,
                bucket_offset_delta |-> None]
          ELSE [starttime |-> starttime, endtime |-> endtime,
                bucket_offset_delta |-> offset]

\* run_rule up to its queries: set_starttime has picked sy_in.starttime for
\* the endtime sy_in.starttime + sy_in.length and calls the adjustment; the
\* tick queries and records the window from rule['starttime'] to endtime.
SyncTick ==
    /\ ~sy_window.done
    /\ LET endtime == sy_in.starttime + sy_in.length
           adj == adjust_start_time_for_interval_sync(sy_in, sy_in.starttime, endtime)
       IN  sy_window' = [done |-> TRUE, starttime |-> adj.starttime, endtime |-> adj.endtime,
                         bucket_offset_delta |-> adj.bucket_offset_delta]
    /\ UNCHANGED sy_in
    /\ UNCHANGED notSync

SyncNext == SyncTick

(***************************************************************************)
(* PART 15 - limit_execution: handle_rule_execution and                     *)
(* reset_rule_schedule for one rule whose file has a cron expression, with  *)
(* the cursor of Part 4.  The time unit is run_every, one minute; the       *)
(* code compares in seconds.                                                *)
(***************************************************************************)
\* The process starts at LimitEpoch.
LimitEpoch == 10

\* The clock stops this long after LimitEpoch.
LimitSpan == 7

\* The cron expression allows the minutes t with t % CronPeriod in CronOn.
CronPeriod == 4

CronOn == {0, 1}

\* The writeback index holds no status document of the rule, or one whose
\* endtime is one of these (an earlier process wrote it).
OldStatus == {LimitEpoch - 1}

\* The rule configurations explored, as in CursorRules, with
\* limit_execution_coverage.
LimitRules ==
    {[mode |-> m, buffer_time |-> 2, timeframe |-> None, scan_entire_timeframe |-> FALSE,
      query_delay |-> 0, limit_execution_coverage |-> c] :
        m \in {"search", "count"}, c \in BOOLEAN}

NoLimitTick ==
    [now |-> None, next_starttime |-> None, fresh |-> FALSE, floor |-> None,
     ran |-> FALSE, queries |-> <<>>]

\* next(croniter(rule['limit_execution'])): the first allowed time after now.
exec_next(now) ==
    CHOOSE t \in (now + 1)..(now + CronPeriod) :
        /\ t % CronPeriod \in CronOn
        /\ \A u \in (now + 1)..(t - 1) : u % CronPeriod \notin CronOn

\* The rule after init_rule, its job (next_run_time: when it fires next;
\* None: paused) and the newest status document.  floor is the latest time
\* a pause with limit_execution_coverage gave to minimum_starttime.
LimitState(rule, status) ==
    /\ le_rule = rule
    /\ le_now = LimitEpoch
    /\ le_st = [has_run_once |-> FALSE, starttime |-> None, minimum_starttime |-> None,
                previous_endtime |-> None, next_run_time |-> LimitEpoch,
                status |-> status, floor |-> None]
    /\ le_tick = NoLimitTick

LimitIdle ==
    LimitState([mode |-> "search", buffer_time |-> 2, timeframe |-> None,
                scan_entire_timeframe |-> FALSE, query_delay |-> 0,
                limit_execution_coverage |-> FALSE], None)

LimitInit == \E rule \in LimitRules, status \in OldStatus \cup {None} : LimitState(rule, status)

\* reset_rule_schedule for the rule state st of a rule with limit_execution:
\* with next_starttime the job is given that next run time, and with
\* next_min_starttime minimum_starttime and previous_endtime are set to it.
limit_reset_rule_schedule(st, next_starttime, next_min_starttime) ==
    IF next_starttime # None
      THEN IF next_min_starttime # None
             THEN [st EXCEPT !.next_run_time = next_starttime,
                             !.minimum_starttime = next_min_starttime,
                             !.previous_endtime = next_min_starttime,
                             !.floor = next_min_starttime]
             ELSE [st EXCEPT !.next_run_time = next_starttime]
      ELSE st

\* handle_rule_execution for the rule with limit_execution, fired by its
\* job.  es_ok: the search for the last status document succeeds; failAt:
\* the query of the tick that fails (0: none); raises: run_rule raises an
\* exception that is not an EAException after its queries, and
\* handle_uncaught_exception pauses the job (disable_rules_on_error).
LimitTick(es_ok, failAt, raises) ==
    LET endtime == le_now - le_rule.query_delay
        pause == (endtime + run_every) * 60 < exec_next(le_now) * 60 - 59
        next_starttime == IF pause THEN exec_next(le_now) ELSE None
        next_min_starttime ==
            IF pause /\ le_rule.limit_execution_coverage THEN exec_next(le_now) ELSE None
        last_run_end ==
            IF le_st.starttime = None /\ ~le_rule.scan_entire_timeframe
              THEN get_starttime(le_st.status, le_now, es_ok) ELSE None
        st == set_starttime(le_rule, le_st.starttime, le_st.minimum_starttime,
                            le_st.previous_endtime, endtime, last_run_end)
        q0 == [processed_hits |-> {}, added |-> {}, readded |-> {}, counted |-> {},
               recounted |-> {}, num_dupes |-> 0, dupes |-> {}, ok |-> TRUE,
               queries |-> <<>>]
        r == run_rule(le_rule, st, q0, le_now, endtime, failAt)
        done == r.outcome = "done" /\ ~raises
        ran == [le_st EXCEPT !.has_run_once = TRUE,
                             !.starttime = r.starttime,
                             !.minimum_starttime = st.minimum_starttime,
                             !.previous_endtime = IF done THEN r.endtime ELSE @,
                             !.status = IF done THEN r.endtime ELSE @,
                             !.next_run_time = IF raises THEN None ELSE le_now + run_every]
    IN  /\ le_st.next_run_time # None
        /\ le_now >= le_st.next_run_time
        /\ le_tick.now # le_now
        /\ IF pause /\ ~le_st.has_run_once
             THEN /\ failAt = 0 /\ ~raises /\ es_ok
                  /\ le_st' = limit_reset_rule_schedule(le_st, next_starttime,
                                                        next_min_starttime)
                  /\ le_tick' = [now |-> le_now, next_starttime |-> next_starttime,
                                 fresh |-> TRUE, floor |-> le_st.floor, ran |-> FALSE,
                                 queries |-> <<>>]
             ELSE /\ le_st' = limit_reset_rule_schedule(ran, next_starttime,
                                                        next_min_starttime)
                  /\ le_tick' = [now |-> le_now, next_starttime |-> next_starttime,
                                 fresh |-> ~le_st.has_run_once, floor |-> le_st.floor,
                                 ran |-> TRUE, queries |-> r.q.queries]
        /\ UNCHANGED <<le_rule, le_now>>
        /\ UNCHANGED notLimit

LimitAdvance ==
    /\ le_now < LimitEpoch + LimitSpan
    /\ le_now' = le_now + 1
    /\ UNCHANGED <<le_rule, le_st, le_tick>>
    /\ UNCHANGED notLimit

LimitNext ==
    \/ \E es_ok \in BOOLEAN, failAt \in 0..2, raises \in BOOLEAN :
           LimitTick(es_ok, failAt, raises)
    \/ LimitAdvance

(***************************************************************************)
(* PART 16 - the lists self.rules and self.disabled_rules and the job       *)
(* store.  load_rule_changes and handle_uncaught_exception keep them as     *)
(* Python lists, so a name can occur more than once; each rule file holds   *)
(* the rule of one fixed name, disable_rules_on_error is set and --rule is  *)
(* not given.                                                               *)
(***************************************************************************)
\* disabled_rules is followed up to this length.
MaxDisabledLen == 3

\* What a rule file is to the loader: not there, a rule, a rule with
\* is_enabled false, or a file load_configuration rejects.
FileStates == {"absent", "enabled", "disabled", "invalid"}

Names(seq) == {seq[i] : i \in 1..Len(seq)}

Without(seq, n) == SelectSeq(seq, LAMBDA x : x # n)

\* list.remove of the first element equal to n, if there is one.
RECURSIVE RemoveFirst(_, _)
RemoveFirst(seq, n) ==
    IF seq = <<>> THEN <<>>
    ELSE IF Head(seq) = n THEN Tail(seq)
    ELSE <<Head(seq)>> \o RemoveFirst(Tail(seq), n)

\* __init__: rules with is_enabled false go to disabled_rules, init_rule adds
\* a job for each of the others.
ListsState(files) ==
    /\ ls_hashes = files
    /\ \E order \in {<<"r1", "r2">>} :
           /\ ls_rules = SelectSeq(order, LAMBDA n : files[n] = "enabled")
           /\ ls_disabled = SelectSeq(order, LAMBDA n : files[n] = "disabled")
    /\ ls_jobs = [n \in RuleNames |-> IF files[n] = "enabled" THEN "scheduled" ELSE "none"]
    /\ ls_inflight = {}

ListsIdle == ListsState([n \in RuleNames |-> "absent"])

ListsInit == \E files \in [RuleNames -> FileStates \ {"invalid"}] : ListsState(files)

\* The loop of load_rule_changes over rule_hashes, for the file of rule n.
\* S holds rules, disabled_rules, the job store and whether an exception has
\* left the function; new: the files now; touched: the files whose hash
\* changed without a change of their state.
changed_rule_file(S, n, new, touched) ==
    IF S.raised \/ ls_hashes[n] = "absent" THEN S
    ELSE IF new[n] = "absent"
      THEN IF n \notin Names(S.rules) THEN S
           ELSE IF S.jobs[n] = "none" THEN [S EXCEPT !.raised = TRUE]
           ELSE [S EXCEPT !.jobs[n] = "none", !.rules = RemoveFirst(@, n)]
    ELSE IF new[n] = ls_hashes[n] /\ n \notin touched THEN S
    ELSE IF new[n] = "invalid" THEN S
    ELSE IF new[n] = "disabled"
      THEN [S EXCEPT !.rules = Without(@, n),
                     !.jobs[n] = "none",
                     !.disabled = IF n \in Names(@) THEN @ ELSE Append(@, n)]
    ELSE [S EXCEPT !.disabled = RemoveFirst(@, n),
                   !.jobs[n] = "scheduled",
                   !.rules = Append(Without(@, n), n)]

\* The loop of load_rule_changes over the new files, for the file of rule n.
\* add_job raises when the job store holds a job of that id.
new_rule_file(S, n, new) ==
    IF S.raised \/ ls_hashes[n] # "absent" \/ new[n] # "enabled" THEN S
    ELSE IF n \in Names(S.rules) THEN S
    ELSE IF S.jobs[n] # "none" THEN [S EXCEPT !.raised = TRUE]
    ELSE [S EXCEPT !.jobs[n] = "scheduled", !.rules = Append(@, n)]

\* load_rule_changes: the files are visited in the order given; rule_hashes
\* is replaced at the end, unless an exception left the function before.
load_rule_changes(new, touched, order) ==
    LET S0 == [rules |-> ls_rules, disabled |-> ls_disabled, jobs |-> ls_jobs,
               raised |-> FALSE]
        S1 == changed_rule_file(S0, order[1], new, touched)
        S2 == changed_rule_file(S1, order[2], new, touched)
        S3 == new_rule_file(S2, order[1], new)
        S4 == new_rule_file(S3, order[2], new)
    IN  /\ ls_rules' = S4.rules
        /\ ls_disabled' = S4.disabled
        /\ ls_jobs' = S4.jobs
        /\ ls_hashes' = IF S4.raised THEN ls_hashes ELSE new
        /\ <<ls_rules', ls_disabled', ls_jobs', ls_hashes'>>
               # <<ls_rules, ls_disabled, ls_jobs, ls_hashes>>
        /\ UNCHANGED ls_inflight
        /\ UNCHANGED notLists

\* The scheduler fires the job of rule n: a scheduled job with no run of that
\* job id going (max_instances 1).
ListsFire(n) ==
    /\ ls_jobs[n] = "scheduled"
    /\ n \notin ls_inflight
    /\ ls_inflight' = ls_inflight \cup {n}
    /\ UNCHANGED <<ls_rules, ls_disabled, ls_jobs, ls_hashes>>
    /\ UNCHANGED notLists

\* reset_rule_schedule on the job store: modify_job gives the job a next run
\* time when the tick of a rule with limit_execution set next_starttime.
lists_reset_rule_schedule(js, n, next_starttime) ==
    IF n \in limit_execution /\ next_starttime /\ js[n] # "none"
      THEN [js EXCEPT ![n] = "scheduled"]
      ELSE js

\* handle_rule_execution returns without an uncaught exception.
ListsTickReturn(n, next_starttime) ==
    /\ n \in ls_inflight
    /\ ls_inflight' = ls_inflight \ {n}
    /\ ls_jobs' = lists_reset_rule_schedule(ls_jobs, n, next_starttime)
    /\ UNCHANGED <<ls_rules, ls_disabled, ls_hashes>>
    /\ UNCHANGED notLists

\* run_rule raises an exception that is not an EAException:
\* handle_uncaught_exception drops every rule of that name from self.rules,
\* appends the rule to disabled_rules and pauses the job; pause_job raises
\* when there is no job of that id, and handle_rule_execution ends there;
\* otherwise it goes on to reset_rule_schedule.
handle_uncaught_exception(n, next_starttime) ==
    /\ n \in ls_inflight
    /\ Len(ls_disabled) < MaxDisabledLen
    /\ ls_inflight' = ls_inflight \ {n}
    /\ ls_rules' = Without(ls_rules, n)
    /\ ls_disabled' = Append(ls_disabled, n)
    /\ ls_jobs' = IF ls_jobs[n] = "none" THEN ls_jobs
                  ELSE lists_reset_rule_schedule([ls_jobs EXCEPT ![n] = "paused"], n,
                                                 next_starttime)
    /\ UNCHANGED ls_hashes
    /\ UNCHANGED notLists

ListsNext ==
    \/ \E new \in [RuleNames -> FileStates], touched \in SUBSET RuleNames,
          order \in {<<"r1", "r2">>, <<"r2", "r1">>} : load_rule_changes(new, touched, order)
    \/ \E n \in RuleNames : ListsFire(n)
    \/ \E n \in RuleNames, next_starttime \in BOOLEAN : ListsTickReturn(n, next_starttime)
    \/ \E n \in RuleNames, next_starttime \in BOOLEAN :
           handle_uncaught_exception(n, next_starttime)

(***************************************************************************)
(* The specifications: one for each part, the other parts at rest.          *)
(***************************************************************************)
AllIdle == SchedInit /\ LockInit /\ SilenceIdle /\ CursorIdle /\ AggInit /\ GcInit /\ ScrollInit /\ SendInit /\ RetryInit /\ ReloadInit /\ EnhIdle /\ DebugIdle /\ LifeIdle /\ SyncIdle /\ LimitIdle /\ ListsIdle

InitSilence == SchedInit /\ LockInit /\ SilenceInit /\ CursorIdle /\ AggInit /\ GcInit /\ ScrollInit /\ SendInit /\ RetryInit /\ ReloadInit /\ EnhIdle /\ DebugIdle /\ LifeIdle /\ SyncIdle /\ LimitIdle /\ ListsIdle

SpecSilence == InitSilence /\ [][SilenceNext]_vars

InitRealert == SchedInit /\ LockInit /\ RealertInit /\ CursorIdle /\ AggInit /\ GcInit /\ ScrollInit /\ SendInit /\ RetryInit /\ ReloadInit /\ EnhIdle /\ DebugIdle /\ LifeIdle /\ SyncIdle /\ LimitIdle /\ ListsIdle

SpecRealert == InitRealert /\ [][RealertNext]_vars

InitCapped == SchedInit /\ LockInit /\ CappedInit /\ CursorIdle /\ AggInit /\ GcInit /\ ScrollInit /\ SendInit /\ RetryInit /\ ReloadInit /\ EnhIdle /\ DebugIdle /\ LifeIdle /\ SyncIdle /\ LimitIdle /\ ListsIdle

SpecCapped == InitCapped /\ [][RealertNext]_vars

InitCursor == SchedInit /\ LockInit /\ SilenceIdle /\ CursorInit /\ AggInit /\ GcInit /\ ScrollInit /\ SendInit /\ RetryInit /\ ReloadInit /\ EnhIdle /\ DebugIdle /\ LifeIdle /\ SyncIdle /\ LimitIdle /\ ListsIdle

SpecCursor == InitCursor /\ [][CursorNext]_vars

InitAgg == SchedInit /\ LockInit /\ SilenceIdle /\ CursorIdle /\ AggInit /\ GcInit /\ ScrollInit /\ SendInit /\ RetryInit /\ ReloadInit /\ EnhIdle /\ DebugIdle /\ LifeIdle /\ SyncIdle /\ LimitIdle /\ ListsIdle

SpecAgg == InitAgg /\ [][AggNext]_vars

InitEnh == SchedInit /\ LockInit /\ SilenceIdle /\ CursorIdle /\ AggInit /\ GcInit /\ ScrollInit /\ SendInit /\ RetryInit /\ ReloadInit /\ EnhInit /\ DebugIdle /\ LifeIdle /\ SyncIdle /\ LimitIdle /\ ListsIdle

SpecEnh == InitEnh /\ [][EnhNext]_vars

InitDebug == SchedInit /\ LockInit /\ SilenceIdle /\ CursorIdle /\ AggInit /\ GcInit /\ ScrollInit /\ SendInit /\ RetryInit /\ ReloadInit /\ EnhIdle /\ DebugInit /\ LifeIdle /\ SyncIdle /\ LimitIdle /\ ListsIdle

SpecDebug == InitDebug /\ [][DebugNext]_vars

InitLife == SchedInit /\ LockInit /\ SilenceIdle /\ CursorIdle /\ AggInit /\ GcInit /\ ScrollInit /\ SendInit /\ RetryInit /\ ReloadInit /\ EnhIdle /\ DebugIdle /\ LifeInit /\ SyncIdle /\ LimitIdle /\ ListsIdle

SpecLife == InitLife /\ [][LifeNext]_vars

InitSync == SchedInit /\ LockInit /\ SilenceIdle /\ CursorIdle /\ AggInit /\ GcInit /\ ScrollInit /\ SendInit /\ RetryInit /\ ReloadInit /\ EnhIdle /\ DebugIdle /\ LifeIdle /\ SyncInit /\ LimitIdle /\ ListsIdle

SpecSync == InitSync /\ [][SyncNext]_vars

InitLimit == SchedInit /\ LockInit /\ SilenceIdle /\ CursorIdle /\ AggInit /\ GcInit /\ ScrollInit /\ SendInit /\ RetryInit /\ ReloadInit /\ EnhIdle /\ DebugIdle /\ LifeIdle /\ SyncIdle /\ LimitInit /\ ListsIdle

SpecLimit == InitLimit /\ [][LimitNext]_vars

InitLists == SchedInit /\ LockInit /\ SilenceIdle /\ CursorIdle /\ AggInit /\ GcInit /\ ScrollInit /\ SendInit /\ RetryInit /\ ReloadInit /\ EnhIdle /\ DebugIdle /\ LifeIdle /\ SyncIdle /\ LimitIdle /\ ListsInit

SpecLists == InitLists /\ [][ListsNext]_vars

SpecSched == AllIdle /\ [][SchedNext]_vars

SpecGc == AllIdle /\ [][GcNext]_vars

SpecLock == AllIdle /\ [][LockNext]_vars

SpecReload == AllIdle /\ [][ReloadNext]_vars

SpecRetry == AllIdle /\ [][RetryNext]_vars

SpecSend == AllIdle /\ [][SendNext]_vars

SpecScroll == AllIdle /\ [][ScrollNext]_vars

(***************************************************************************)
(* The claims.                                                              *)
(***************************************************************************)

\* C1: at no time are two ticks of the same rule name in flight, for any
\* interleaving of fires, returns and reloads; a fire that arrives while a
\* tick of that name runs is coalesced, also when the running tick belongs
\* to the instance a reload has replaced.
C1_NoOverlappingTicks ==
    \A n \in RuleNames :
        /\ Len(inflight[n]) <= 1
        /\ Len(inflight[n]) = instances[n]

\* A fire was coalesced while the tick of a replaced instance was running.
C1_Witness ==
    \E n \in RuleNames :
        /\ Len(inflight[n]) = 1
        /\ jobs[n] # NoJob
        /\ jobs[n].gen # inflight[n][1]
        /\ coalesced[n]

\* C10: the body of send_pending_alerts and the body of add_aggregated_alert
\* are mutually exclusive under alert_lock: no thread is inside
\* add_aggregated_alert while the sweep is anywhere in its body (query,
\* dispatches and deletes, in-memory drain), and no two threads are inside
\* add_aggregated_alert at once.
C10_AlertLockExcludes ==
    LET inAdd == {t \in TickThreads : lk_pc[t] = "add_body"}
        inSweep == lk_pc[SweepThread] = "sweep_body"
    IN  /\ Cardinality(inAdd) <= 1
        /\ inSweep => inAdd = {}
        /\ inSweep => alert_lock = SweepThread
        /\ \A t \in inAdd : alert_lock = t

\* The sweep is in its in-memory drain while two ticks wait to aggregate a match.
C10_Witness ==
    /\ lk_pc[SweepThread] = "sweep_body"
    /\ sweep_phase = "drain"
    /\ \A t \in TickThreads : lk_pc[t] = "add_wait"

\* C5: while the rule-wide key or the match's own silence key has a cache
\* entry with until > now, a match that run_rule drains for that key is
\* ignored: it is neither alerted nor queued for aggregation, and the entry
\* that silences it, like every silence document, is left unchanged.
C5_SilencedMatchDropped ==
    [][\A k \in MatchKeys :
         sl_op' = <<"match", k>> =>
           \A s \in {RuleWideKey, k} :
             (silence_cache[s] # NoEntry /\ sl_now < silence_cache[s].until) =>
                /\ sl_outcome' = "ignored"
                /\ silence_cache'[s] = silence_cache[s]
                /\ silence_docs' = silence_docs]_vars

\* A match was ignored under a live entry of its own key while the rule-wide
\* key has no entry.
C5_Witness ==
    \E k \in MatchKeys :
        /\ sl_op = <<"match", k>>
        /\ sl_outcome = "ignored"
        /\ silence_cache[k] # NoEntry
        /\ sl_now < silence_cache[k].until
        /\ silence_cache[RuleWideKey] = NoEntry

\* The sum of realert * 2^j for j in lo..hi.
RECURSIVE SumRealert(_, _, _)
SumRealert(rule, lo, hi) ==
    IF lo > hi THEN 0 ELSE rule.realert * Pow2(hi) + SumRealert(rule, lo, hi - 1)

\* The exponential schedule of the last call: with e the cached exponent and
\* diff the time since the cached until, the exponent rises to e + 1 when
\* diff < realert * 2^e; otherwise it falls to the x <= e for which every
\* step from e down to x + 1 found more than realert * 2^j of the remaining
\* diff to consume and the step at x does not.  The wait is realert * 2^x,
\* capped at exponential_realert (the capped call returns x - 1).
C6_ScheduleOfLastCall ==
    LET e == ra_last.pre.exponent
        diff == ra_last.t - ra_last.pre.until
        Left(j) == diff - SumRealert(sl_rule, j + 1, e)
        Fallen(x) ==
            /\ \A j \in (x + 1)..e : Left(j) > sl_rule.realert * Pow2(j)
            /\ x = 0 \/ Left(x) <= sl_rule.realert * Pow2(x)
        Result(x) ==
            IF sl_rule.realert * Pow2(x) >= sl_rule.exponential_realert
              THEN <<ra_last.t + sl_rule.exponential_realert, x - 1>>
              ELSE <<ra_last.t + sl_rule.realert * Pow2(x), x>>
    IN  ra_last.t # None =>
          IF ra_last.pre = NoEntry
            THEN ra_last.res = <<ra_last.t + sl_rule.realert, 0>>
            ELSE IF diff < sl_rule.realert * Pow2(e)
              THEN ra_last.res = Result(e + 1)
              ELSE \E x \in 0..e : Fallen(x) /\ ra_last.res = Result(x)

\* C6: with realert = 1 min and exponential_realert = 1 h, calls at t = 0,
\* 30 s, 70 s and 3 h, each stored with set_realert, return until = t + 1 min,
\* t + 2 min, t + 4 min and t + 1 min; and every call follows the exponential
\* schedule: the exponent rises by one for a call that comes less than
\* realert * 2^exp after the last until, and otherwise falls by one for each
\* realert * 2^exp of elapsed time that is consumed.
C6_ExponentialRealert ==
    /\ \A k \in MatchKeys :
         /\ s3_step = 1 => silence_cache[k].until = 0 + 6
         /\ s3_step = 2 => silence_cache[k].until = 3 + 12
         /\ s3_step = 3 => silence_cache[k].until = 7 + 24
         /\ s3_step = 4 => silence_cache[k].until = 1080 + 6
    /\ C6_ScheduleOfLastCall

\* The four calls of the scenario were made, the last one after the long gap.
C6_Witness ==
    /\ s3_step = 4
    /\ ra_last.t = 1080
    /\ ra_last.pre = [until |-> 31, exponent |-> 2]
\* The endtime handle_rule_execution gave the last tick.
TickEndtime == cu_tick.now - cu_rule.query_delay

\* endtime - buffer_time of the last tick, with timeframe in the place of
\* buffer_time under scan_entire_timeframe.
TickBufferDelta ==
    TickEndtime - (IF cu_rule.scan_entire_timeframe THEN cu_rule.timeframe
                                                    ELSE cu_rule.buffer_time)

S1_TwoTicks ==
    /\ cu_rule = S1_rule
    /\ cu_prev.last_run_end # None
    /\ cu_prev.last_run_end = cu_prev.now - 2
    /\ cu_tick.now = cu_prev.now + run_every

C4_NoHitAddedTwice ==
    cu_rule.mode = "search" =>
        /\ cu_readded = {}
        /\ cu_tick.num_dupes = Cardinality(cu_tick.dupes)
\* The unsent documents without aggregate_id the store holds for a key.
UnsentRoots(key) == {d \in ag_store : d.key = key /\ d.aggregate_id = None}

\* C7 as stated: for every aggregation key with current_aggregate_id set the
\* store holds exactly one unsent document without aggregate_id for the rule
\* and the key, and its id is current_aggregate_id[key].
C7_ExactlyOneUnsentRoot ==
    \A key \in AggKeys :
        ag_current_aggregate_id[key] # None =>
            /\ Cardinality(UnsentRoots(key)) = 1
            /\ \A d \in UnsentRoots(key) : d.id = ag_current_aggregate_id[key]

\* C7 as amended: for every aggregation key with current_aggregate_id set the
\* store holds the document with that id, and it is an unsent document
\* without aggregate_id of the rule, and of the key when the key is a value
\* of the aggregation_key field (the entry of matches without the field may
\* name the root of another key); the store may hold further such documents
\* for the key.
C7_CurrentRootStored ==
    \A key \in AggKeys :
        ag_current_aggregate_id[key] # None =>
            /\ Cardinality({d \in ag_store : /\ d.aggregate_id = None
                                             /\ d.id = ag_current_aggregate_id[key]}) = 1
            /\ key # NoKey =>
                   \E d \in UnsentRoots(key) : d.id = ag_current_aggregate_id[key]

\* The key has a current group and the root of an earlier group, its deadline
\* passed, still waits for the sweep.
C7_Witness ==
    \E key \in AggKeys :
        /\ ag_current_aggregate_id[key] # None
        /\ \E d \in UnsentRoots(key) : d.id = ag_current_aggregate_id[key]
        /\ \E d \in UnsentRoots(key) : /\ d.id # ag_current_aggregate_id[key]
                                       /\ d.alert_time < ag_now

\* C8: after a sweep, every match stored under a root the sweep dispatched
\* was in the alert call of the root, and the store holds neither the root
\* nor a document with the root as aggregate_id.
C8_GroupDeliveredAndDeleted ==
    ag_swept =>
        \A r \in ag_dispatched :
            /\ r.stored \subseteq r.alerted
            /\ \A d \in ag_store : d.id # r.root /\ d.aggregate_id # r.root

\* C9: after a sweep, every pending document the store held at the restart
\* whose alert_time has passed is gone from the store and its match was
\* delivered; and no match is delivered twice.
C9_RestartPendingSentOnce ==
    /\ ag_swept =>
          \A p \in ag_at_restart :
              p.alert_time < ag_now =>
                  /\ \A d \in ag_store : d.id # p.id
                  /\ ag_delivered[p.n] = 1
    /\ \A m \in 1..MaxMatches : ag_delivered[m] <= 1

\* C11: the memory GC job takes no entry out of processed_hits,
\* aggregate_alert_time or current_aggregate_id of a rule whose tick is in
\* flight.
C11_GcSparesBusyRules ==
    gc_op.op = "cleanup_memory_caches" =>
        \A e \in gc_op.hits \cup gc_op.keys : ~gc_inflight[e[1]]

\* The operations that run remove_old_events on the rules of gc_op.rules.
RemoveOldEventsOps == {"remove_old_events", "cleanup_memory_caches", "cleanup_rule_memory"}

\* C17: after remove_old_events(rule) at time now, processed_hits holds exactly
\* the entries it held before with now - ts <= buffer_time + query_delay.
C17_RemoveOldEventsExact ==
    [][\A n \in GcRuleNames :
          (gc_op'.op \in RemoveOldEventsOps /\ n \in gc_op'.rules) =>
              gc_processed_hits'[n] =
                  {id \in gc_processed_hits[n] :
                      gc_now - id <= GcRuleConf[n].buffer_time + GcRuleConf[n].query_delay}]_vars

\* remove_old_events ran for a rule with a query_delay, took an entry away and
\* left one.
C17_Witness ==
    /\ gc_op.op = "remove_old_events"
    /\ \E n \in gc_op.rules :
          /\ GcRuleConf[n].query_delay > 0
          /\ \E e \in gc_op.hits : e[1] = n
          /\ gc_processed_hits[n] # {}

\* The operations that run cleanup_silence_cache and cleanup_es_clients_cache.
CacheCleanupOps == {"cleanup_memory_caches", "handle_pending_alerts"}

\* C18: cleanup_silence_cache removes every entry whose until is not later
\* than now and leaves every entry with until > now as it is.
C18_SilenceCacheCleanup ==
    [][gc_op'.op \in CacheCleanupOps =>
          \A k \in GcRuleNames :
              IF gc_silence_cache[k] # NoEntry /\ gc_silence_cache[k].until <= gc_now
                THEN gc_silence_cache'[k] = NoEntry
                ELSE gc_silence_cache'[k] = gc_silence_cache[k]]_vars

\* A cleanup took an entry out of the silence cache.
C18_Witness ==
    /\ gc_op.op \in CacheCleanupOps
    /\ gc_op.silence # {}

\* C19: cleanup_expired_aggregates (for the loaded rules) and
\* cleanup_rule_memory (for its rule) take every key whose deadline is before
\* now out of aggregate_alert_time and current_aggregate_id, and leave every
\* key with a later deadline in both maps as it is.
C19_ExpiredAggregatesCleanup ==
    [][\A n \in GcRuleNames, k \in AggKeys :
          (/\ gc_op'.op \in {"cleanup_memory_caches", "cleanup_rule_memory"}
           /\ n \in gc_op'.rules
           /\ gc_aggregate_alert_time[n][k] # None) =>
              /\ gc_aggregate_alert_time[n][k] < gc_now =>
                    /\ gc_aggregate_alert_time'[n][k] = None
                    /\ gc_current_aggregate_id'[n][k] = None
              /\ gc_aggregate_alert_time[n][k] > gc_now =>
                    /\ gc_aggregate_alert_time'[n][k] = gc_aggregate_alert_time[n][k]
                    /\ gc_current_aggregate_id'[n][k] = gc_current_aggregate_id[n][k]]_vars

\* The GC job took an expired key out of the two maps of a rule.
C19_Witness ==
    /\ gc_op.op = "cleanup_memory_caches"
    /\ \E e \in gc_op.keys :
          /\ gc_aggregate_alert_time[e[1]][e[2]] = None
          /\ gc_current_aggregate_id[e[1]][e[2]] = None

\* C20: after cleanup_es_clients_cache the keys of es_clients are the keys it
\* had that name a rule of rules or of disabled_rules.
C20_EsClientsCleanup ==
    [][gc_op'.op \in CacheCleanupOps =>
          gc_es_clients' =
              {c \in gc_es_clients : c \in gc_rules \cup gc_disabled_rules}]_vars

\* A cleanup discarded the client of a removed rule and kept the client of a
\* disabled one.
C20_Witness ==
    /\ gc_op.op \in CacheCleanupOps
    /\ gc_op.clients # {}
    /\ gc_es_clients \cap gc_disabled_rules # {}

\* C12: after a run_query call, whatever its exit path, the rule holds no
\* scroll_id and clear_scroll has been requested for the scroll id the backend
\* issued to the call.
C12_ScrollAlwaysCleared ==
    sc_last.exit # "none" =>
        /\ sc_scroll_id = None
        /\ sc_last.issued # None => sc_last.issued \in sc_cleared

\* The alerters of the last send_alert call that sent the matches.
Succeeded == {i \in 1..NumAlerters : sa_last.outcomes[i] = "sent"}

\* The alerters of the last send_alert call that raised an exception other
\* than EAException.
Raised == {i \in 1..NumAlerters : sa_last.outcomes[i] = "Exception"}

C14_RetriedUntilSentOrExpired ==
    /\ rt_last.swept =>
          /\ rt_last.due => rt_last.dispatched >= 1
          /\ rt_last.sent_before => rt_last.dispatched = 0
    /\ \A d \in rt_store : d.alert_time = rt_alert_time

\* The new instance has the seven copied properties of the rule r.
SameCopiedProperties(r) ==
    /\ rl_rule.agg_matches = r.agg_matches
    /\ rl_rule.current_aggregate_id = r.current_aggregate_id
    /\ rl_rule.aggregate_alert_time = r.aggregate_alert_time
    /\ rl_rule.processed_hits = r.processed_hits
    /\ rl_rule.starttime = r.starttime
    /\ rl_rule.minimum_starttime = r.minimum_starttime
    /\ rl_rule.has_run_once = r.has_run_once

\* C15 as it is written: after a changed rule file is reloaded as enabled, the
\* new instance has the agg_matches, current_aggregate_id,
\* aggregate_alert_time, processed_hits, starttime, minimum_starttime and
\* has_run_once of the prior instance of that name.
C15_ReloadKeepsState ==
    rl_last.op = "reload" => SameCopiedProperties(rl_last.prior)

\* C15, amended: the new instance has the seven properties of the prior
\* instance of that name in self.rules; when the name is only in
\* disabled_rules it has those of a blank rule.
C15_ReloadKeepsStateOfLoadedRule ==
    rl_last.op = "reload" =>
        SameCopiedProperties(IF rl_last.in_rules THEN rl_last.prior ELSE blank_rule)

\* A loaded rule with a seen hit, an open group and a match kept in memory
\* was reloaded.
C15_Witness ==
    /\ rl_last.op = "reload"
    /\ rl_last.in_rules
    /\ rl_last.prior.processed_hits # {}
    /\ rl_last.prior.current_aggregate_id # None
    /\ rl_last.prior.agg_matches # <<>>
    /\ rl_last.prior.has_run_once

\* C16: a rule that an uncaught exception disabled is absent from rules,
\* in disabled_rules and its job is paused (or removed), and no tick of a
\* rule in disabled_rules starts, also for a rule with limit_execution.
C16_DisabledOnErrorStaysPaused ==
    [][\A n \in RuleNames :
          /\ n \in disabled_rules' =>
                /\ rules'[n] = None
                /\ jobs'[n] = NoJob \/ jobs'[n].paused
          /\ n \in disabled_rules /\ n \in disabled_rules' =>
                Len(inflight'[n]) <= Len(inflight[n])]_vars

\* What a lookup of the durable silence storage alone answers for key k.
DurableSilenced(k) == silence_docs[k] # NoEntry /\ sl_now < silence_docs[k].until

\* C21: whatever set_realert, is_silenced, cleanup_silence_cache, restarts and
\* writeback failures came before, is_silenced(key) (its search succeeding)
\* answers what the newest silence document of the key alone answers.
C21_CacheAgreesWithStorage ==
    \A k \in SilenceKeys :
        is_silenced(silence_cache, silence_docs, k, sl_now, TRUE).silenced = DurableSilenced(k)

\* The cache entry of key k a next_alert_time call reads after is_silenced(k)
\* (es: the search of is_silenced succeeds).
ReadBack(k, es) == is_silenced(silence_cache, silence_docs, k, sl_now, es).cache[k]

\* next_alert_time called again with the rule, the cache entry and the
\* timestamp of the call whose result set_realert stored returns that result.
SameResultAgain(k) ==
    next_alert_time(sl_rule, [silence_cache EXCEPT ![k] = sl_set[k].pre], k, sl_set[k].t)
        = <<sl_set[k].pair.until, sl_set[k].pair.exponent>>

SeqRange(s) == {s[i] : i \in 1..Len(s)}

\* Enhancement e is run for match m when no earlier enhancement dropped m.
EnhancementRuns(e, m) ==
    \A e2 \in match_enhancements : e2 < e => en_in.process[e2][m] # "DropMatchException"

\* C23: a match whose enhancement raises an error that is no drop signal has
\* the error recorded and is delivered with the rest of its batch; the
\* matches that are not delivered are exactly the matches an enhancement
\* dropped.
C23_EnhancementErrorKeepsMatch ==
    en_last.done =>
        \A m \in 1..en_in.matches :
            /\ m \in SeqRange(en_last.delivered) <=>
                  \A e \in match_enhancements : en_in.process[e][m] # "DropMatchException"
            /\ \A e \in match_enhancements :
                  en_in.process[e][m] = "EAException" /\ EnhancementRuns(e, m) =>
                      <<e, m>> \in en_last.errors

\* C24: in debug mode no alerter of the rule is called and no operation of
\* the engine (tick, dispatch, silence update, pending-alert sweep) writes
\* or deletes a document of the writeback index.
C24_DebugLeavesStoreAlone ==
    [][db_debug => /\ db_store' = db_store
                   /\ db_calls'.alerters = db_calls.alerters]_vars

\* The match numbered n is in an unsent elastalert document of the store st
\* has, and it is in the agg_matches st has.
StoredIn(st, n) == \E d \in st.store : d.match.n = n

HeldIn(st, n) == \E i \in 1..Len(st.mem) : st.mem[i].n = n

\* The rule state after run_rule pops the last match of agg_matches.
Popped == [AggState EXCEPT !.mem = SubSeq(ag_agg_matches, 1, Len(ag_agg_matches) - 1)]

\* C25: when add_aggregated_alert returns, for a new match of the rule type
\* or for a match popped from agg_matches, with the search and the writeback
\* working or failing, the match is in an unsent document of the store or in
\* agg_matches, and not in both; no match is ever in both.
C25_MatchStoredOrHeld ==
    /\ \A es_ok, wb_ok \in BOOLEAN :
          /\ \A key \in AggKeys :
                ag_next_match <= MaxMatches =>
                    LET st == add_aggregated_alert(AggState, [n |-> ag_next_match, key |-> key],
                                                   ag_now, es_ok, wb_ok)
                    IN  StoredIn(st, ag_next_match) # HeldIn(st, ag_next_match)
          /\ ag_agg_matches # <<>> =>
                LET match == ag_agg_matches[Len(ag_agg_matches)]
                    st == add_aggregated_alert(Popped, match, ag_now, es_ok, wb_ok)
                IN  StoredIn(st, match.n) # HeldIn(st, match.n)
    /\ \A n \in 1..MaxMatches : ~(StoredIn(AggState, n) /\ HeldIn(AggState, n))

\* A match whose writeback failed is held in agg_matches and is in no
\* document, while another match is stored.
C25_Witness ==
    /\ \E n \in 1..MaxMatches : HeldIn(AggState, n) /\ ~StoredIn(AggState, n)
    /\ \E n \in 1..MaxMatches : StoredIn(AggState, n) /\ ~HeldIn(AggState, n)

\* A match of aggregation key k is held in agg_matches.
HeldKey(mem, k) == \E i \in 1..Len(mem) : mem[i].key = k

\* C26, the deadline of a group held in memory: while matches of a key stay
\* in agg_matches and the rule type gives no new match, a step (the tick
\* that pushes them back through add_aggregated_alert) leaves the key's
\* aggregate_alert_time where it is and does not move it forward, so that
\* the sweep reaches it and dispatches the matches.
C26_HeldGroupKeepsDeadline ==
    [][\A k \in AggKeys :
          /\ HeldKey(ag_agg_matches, k)
          /\ HeldKey(ag_agg_matches', k)
          /\ ag_next_match' = ag_next_match
          /\ ag_aggregate_alert_time[k] # None
          /\ ag_aggregate_alert_time'[k] # None
          => ag_aggregate_alert_time'[k] <= ag_aggregate_alert_time[k]]_vars

\* The windows queried by the last tick are consecutive: each starts where
\* the one before it ends.
Consecutive(queries) ==
    \A i \in 1..(Len(queries) - 1) : queries[i][2] = queries[i + 1][1]

\* C27: a tick of a rule without aggregation_query_element that ran its
\* queries over the window (s, e] with k = segment_size queried the
\* consecutive segments (s, s+k], (s+k, s+2k], ..., (last, e], in ascending
\* order: they start at s, end at e, each begins where the one before ends
\* (so they are disjoint and their union is (s, e]), every one but the last
\* is k long and the last is at most k long.
C27_SegmentsCoverWindow ==
    cu_tick.outcome = "done" /\ cu_rule.mode # "aggregation" =>
        LET queries == cu_tick.queries
            k == get_segment_size(cu_rule)
            n == Len(queries)
        IN  /\ n >= 1
            /\ queries[1][1] = cu_tick.start
            /\ queries[n][2] = cu_tick.endtime
            /\ Consecutive(queries)
            /\ \A i \in 1..(n - 1) : queries[i][2] - queries[i][1] = k
            /\ queries[n][2] - queries[n][1] <= k
            /\ \A i \in 1..n : queries[i][1] <= queries[i][2]

\* A tick queried a window of more than two segments.
C27_Witness ==
    /\ cu_tick.outcome = "done"
    /\ cu_rule.mode # "aggregation"
    /\ Len(cu_tick.queries) >= 3
    /\ cu_tick.endtime - cu_tick.start > 2 * get_segment_size(cu_rule)

\* The number of full segments the loop of run_rule queries in the window
\* (s, e] with segment size k: the loop runs while more than k is left.
FullSegments(s, e, k) ==
    CHOOSE m \in 0..(CursorEpoch + CursorSpan) :
        /\ e - (s + m * k) <= k
        /\ m = 0 \/ e - (s + (m - 1) * k) > k

\* Every window queried by the last tick is exactly k long.
AllFullSegments(queries, k) ==
    \A i \in 1..Len(queries) : queries[i][2] - queries[i][1] = k

\* The last tick returned 0 without a query: previous_endtime is what it was.
ReturnedZero ==
    /\ cu_tick.outcome = "empty"
    /\ cu_tick.queries = <<>>
    /\ cu_tick.previous_endtime = cu_tick.bound_prev

\* The last tick ran m full segments and shrank its endtime to the boundary b.
ShrunkTo(m, b) ==
    /\ cu_tick.outcome = "done"
    /\ Len(cu_tick.queries) = m
    /\ cu_tick.endtime = b
    /\ cu_tick.previous_endtime = b
    /\ cu_tick.status # cu_tick.now - cu_rule.query_delay

\* C28 as stated: every query of an aggregation-mode tick covers one full
\* segment_size interval; when the tail after the last full segment is a
\* full segment one more query is run, when the tail is zero the tick
\* returns 0, and otherwise endtime, previous_endtime and the status
\* document's endtime are the last segment boundary.
C28_AggregationTail ==
    cu_rule.mode = "aggregation" /\ cu_tick.outcome \in {"done", "empty", "failed"} =>
        LET k == get_segment_size(cu_rule)
            e == cu_tick.now - cu_rule.query_delay
            m == FullSegments(cu_tick.start, e, k)
            b == cu_tick.start + m * k
        IN  /\ AllFullSegments(cu_tick.queries, k)
            /\ cu_tick.outcome # "failed" =>
                  IF e - b = k
                    THEN /\ cu_tick.outcome = "done"
                         /\ Len(cu_tick.queries) = m + 1
                         /\ cu_tick.endtime = e
                         /\ cu_tick.previous_endtime = e
                  ELSE IF e - b = 0 THEN ReturnedZero
                  ELSE ShrunkTo(m, b)

\* C28 amended: the tick returns 0 whenever no full segment was queried and
\* the tail is not a full segment, be it zero or a part of a segment; the
\* endtime is shrunk only after at least one full segment was queried.
C28_AggregationTailAfterFullSegment ==
    cu_rule.mode = "aggregation" /\ cu_tick.outcome \in {"done", "empty", "failed"} =>
        LET k == get_segment_size(cu_rule)
            e == cu_tick.now - cu_rule.query_delay
            m == FullSegments(cu_tick.start, e, k)
            b == cu_tick.start + m * k
        IN  /\ AllFullSegments(cu_tick.queries, k)
            /\ cu_tick.outcome # "failed" =>
                  IF e - b = k
                    THEN /\ cu_tick.outcome = "done"
                         /\ Len(cu_tick.queries) = m + 1
                         /\ cu_tick.endtime = e
                         /\ cu_tick.previous_endtime = e
                  ELSE IF m = 0 THEN ReturnedZero
                  ELSE ShrunkTo(m, b)

\* An aggregation-mode tick queried a full segment and left a partial tail.
C28_Witness ==
    /\ cu_rule.mode = "aggregation"
    /\ cu_tick.outcome = "done"
    /\ Len(cu_tick.queries) >= 1
    /\ cu_tick.endtime < cu_tick.now - cu_rule.query_delay
    /\ cu_tick.previous_endtime = cu_tick.endtime

\* The step is a tick of the rule's job.
IsRuleTick == ~cu_ran /\ cu_ran'

\* C29: a tick in which a query fails leaves previous_endtime and the status
\* document as they were, and the tick that follows a failed tick queries a
\* window that starts no later than the previous_endtime the failed tick
\* left, so that no time after it is skipped.
C29_FailedWindowNotSkipped ==
    [][IsRuleTick =>
          /\ cu_tick'.outcome = "failed" =>
                /\ cu_previous_endtime' = cu_previous_endtime
                /\ cu_status' = cu_status
          /\ /\ cu_tick.outcome = "failed"
             /\ cu_previous_endtime # None
             /\ cu_tick'.outcome \in {"done", "failed", "empty"}
             => cu_tick'.start <= cu_previous_endtime]_vars

\* C30: the enhancements process a match at most once over its life, also
\* when the sweep dispatches it again after a failed delivery, for rules
\* with and without aggregation.
C30_EnhancedAtMostOnce == lf_match.enhanced <= 1

\* The group of the key is open: current_aggregate_id has the key and its
\* aggregate_alert_time has not passed (add_aggregated_alert's test).
GroupOpen(key) ==
    /\ ag_current_aggregate_id[key] # None
    /\ ~(ag_aggregate_alert_time[key] # None /\ ag_aggregate_alert_time[key] < ag_now)

\* The document add_aggregated_alert writes in state st.
WrittenBy(st) == {d \in st.store : d.id = ag_next_id}

\* C31: while the group of a key is open, add_aggregated_alert for a match
\* of the key stores the match with the group's root id as aggregate_id and
\* with the alert_time of the root document, and changes neither
\* aggregate_alert_time[key] nor current_aggregate_id[key].
C31_JoinKeepsGroup ==
    \A key \in AggKeys : GroupOpen(key) =>
        \A es_ok \in BOOLEAN :
            LET st == add_aggregated_alert(AggState, [n |-> ag_next_match, key |-> key],
                                           ag_now, es_ok, TRUE)
            IN  /\ st.cur[key] = ag_current_aggregate_id[key]
                /\ st.aat[key] = ag_aggregate_alert_time[key]
                /\ \A d \in WrittenBy(st) :
                       /\ d.aggregate_id = ag_current_aggregate_id[key]
                       /\ \E root \in ag_store : /\ root.id = d.aggregate_id
                                                 /\ root.alert_time = d.alert_time
                /\ WrittenBy(st) # {}

\* C35: add_aggregated_alert for a match of one key leaves
\* current_aggregate_id and aggregate_alert_time of every other key as they
\* were, whether it opens a group, adopts a pending root or joins a group,
\* and whether the search and the writeback work or fail.
C35_OtherKeysUntouched ==
    \A key \in AggKeys, es_ok, wb_ok \in BOOLEAN :
        LET st == add_aggregated_alert(AggState, [n |-> ag_next_match, key |-> key],
                                       ag_now, es_ok, wb_ok)
        IN  \A other \in AggKeys \ {key} :
                /\ st.cur[other] = ag_current_aggregate_id[other]
                /\ st.aat[other] = ag_aggregate_alert_time[other]

\* C36: the matches stored under one aggregate_id, and the match of its
\* root, have the same aggregation key value, and so have the matches of
\* every alert call of the sweep; a match without a value counts as a key
\* value of its own.
C36_OneKeyPerGroup ==
    /\ \A d, e \in ag_store :
           /\ d.aggregate_id # None
           /\ e.id = d.aggregate_id \/ e.aggregate_id = d.aggregate_id
           => d.match.key = e.match.key
    /\ \A r \in ag_dispatched : Cardinality(r.keys) <= 1

\* C37: a step that removes a pending document of the match from the
\* writeback index leaves the match delivered by an alerter or leaves a
\* document written in its place.
C37_DeletedOnlyWhenSentOrReplaced ==
    [][\A d \in rt_store :
           (\A e \in rt_store' : e.id # d.id) =>
               \/ rt_sends' > 0
               \/ \E e \in rt_store' : e.id >= rt_next_id /\ e.alert_time = d.alert_time]_vars

\* C38: the step of run_rule for a match that an enhancement drops under
\* run_enhancements_first writes no silence document and leaves the cache
\* entry of the match's key as it was, or as the reads of is_silenced leave
\* it (emptied, or filled from the stored document).
C38_DroppedMatchSetsNoSilence ==
    [][\A k \in MatchKeys :
           sl_op' = <<"match", k>> /\ sl_outcome' = "dropped" =>
               /\ silence_docs' = silence_docs
               /\ silence_cache'[k] \in {silence_cache[k], silence_docs[k], NoEntry}]_vars

\* C39: for a rule with realert > 0 and exponential_realert, whatever entry
\* with an exponent >= 0 the cache holds for the key and whatever the time,
\* next_alert_time returns an exponent >= 0 and an until after now and no
\* later than now + exponential_realert; and no exponent in the cache is
\* negative.
C39_ExponentNeverNegative ==
    /\ \A k \in SilenceKeys : silence_cache[k] # NoEntry => silence_cache[k].exponent >= 0
    /\ sl_rule.realert > 0 /\ sl_rule.exponential_realert # None =>
           \A k \in MatchKeys :
               silence_cache[k] # NoEntry /\ silence_cache[k].exponent >= 0 =>
                   LET nxt == next_alert_time(sl_rule, silence_cache, k, sl_now)
                   IN  /\ nxt[2] >= 0
                       /\ sl_now < nxt[1]
                       /\ nxt[1] <= sl_now + sl_rule.exponential_realert

\* C40: for a count- or terms-mode rule no time unit has its data passed to
\* the rule type a second time, over all ticks of the rule (stated for the
\* rules without scan_entire_timeframe, whose windows do not overlap by
\* configuration).
C40_SegmentCountedOnce ==
    cu_rule.mode = "count" /\ ~cu_rule.scan_entire_timeframe => cu_recounted = {}

\* C32: with sync_bucket_interval and offset = starttime mod the bucket
\* interval, the window the tick queries and records starts at
\* starttime - offset, a multiple of the bucket interval, ends at
\* endtime - offset, and is as long as the window set_starttime picked.
C32_WindowShiftedByOffset ==
    sy_window.done /\ sy_in.sync_bucket_interval =>
        LET offset == sy_in.starttime % sy_in.bucket_interval
        IN  /\ sy_window.starttime = sy_in.starttime - offset
            /\ sy_window.starttime % sy_in.bucket_interval = 0
            /\ sy_window.endtime = sy_in.starttime + sy_in.length - offset
            /\ sy_window.endtime - sy_window.starttime = sy_in.length

\* C33: when a tick of a rule with limit_execution finds the next cron time
\* more than 59 seconds after endtime + run_every, the job is paused until
\* that time; a rule that had never run is paused without any query; and
\* with limit_execution_coverage minimum_starttime and previous_endtime are
\* that time, and no later tick queries a window that starts before it.
C33_PausedUntilNextCronTime ==
    /\ le_tick.next_starttime # None /\ le_tick.now = le_now =>
           /\ le_st.next_run_time = le_tick.next_starttime
           /\ le_tick.fresh => ~le_tick.ran /\ le_tick.queries = <<>>
           /\ le_rule.limit_execution_coverage =>
                  /\ le_st.minimum_starttime = le_tick.next_starttime
                  /\ le_st.previous_endtime = le_tick.next_starttime
    /\ le_tick.floor # None =>
           \A i \in 1..Len(le_tick.queries) : le_tick.queries[i][1] >= le_tick.floor

IsUnique(seq) == \A i, j \in 1..Len(seq) : seq[i] = seq[j] => i = j

\* C34: after any runs of load_rule_changes and rule errors the names in
\* rules are unique, disabled_rules holds each name at most once, no name
\* is in both lists, a job that can fire exists exactly for the names in
\* rules, and a rule whose file is deleted or was loaded as disabled has
\* no job and is not in rules.
C34_ListsAndJobsConsistent ==
    /\ IsUnique(ls_rules)
    /\ IsUnique(ls_disabled)
    /\ Names(ls_rules) \cap Names(ls_disabled) = {}
    /\ \A n \in RuleNames :
           /\ ls_jobs[n] = "scheduled" <=> n \in Names(ls_rules)
           /\ ls_hashes[n] \in {"absent", "disabled"} =>
                  ls_jobs[n] = "none" /\ n \notin Names(ls_rules)

====
